---- MODULE Spec2Model ----
(***************************************************************************)
(* Replication engine of the append-only log database: the Graph of entry  *)
(* references, the Replica that admits entries under an access policy and  *)
(* persists the root, the traversal that orders the DAG, and the head      *)
(* exchange between replicas.                                              *)
(***************************************************************************)
EXTENDS Integers, Sequences, FiniteSets, TLC

(***************************************************************************)
(* Bounds of the model.                                                    *)
(***************************************************************************)
\* calls of add, write and stop made on the replica
MaxCalls == 3
\* calls of add and write that are in flight at the same time
MaxInFlight == 2
\* calls of stop among the calls
MaxStops == 1
\* calls of add and write made on the replicas that exchange heads
MaxNetCalls == 6

Replicas == {"A", "B"}
Payloads == {"p"}
wildcard == "*"
Null == [null |-> TRUE]
ManifestTag == "tag"

VARIABLES
  acl,       \* StaticAccess.write: the authorized-writer set of the manifest
  registry,  \* content-addressed entries created so far; the index is the CID
  isStarted, \* Playable._isStarted of each Replica
  lifepc,    \* position of the start/stop in progress on each Replica
  graph,     \* Replica.#graph (Null when released)
  root,      \* Replica.root
  pointer,   \* datastore[rootHashKey]: the root it names, as a Graph
  rootblock, \* the blockstore has the block of the root the pointer names
  blocks,    \* entry blocks in each replica's blockstore
  idblocks,  \* identity blocks in each replica's blockstore
  calls,     \* add / write calls in flight on each Replica
  last,      \* the call that returned last on each Replica
  ncalls,    \* number of add / write / stop calls that can still be made
  nstops,    \* number of stop calls that can still be made
  lastRead,  \* the last has / known call and its answer
  walk,      \* the traverse call in progress or returned last, per Replica
  listening, \* PubsubReplicator: its listeners are registered
  bcast,     \* PubsubReplicator.broadcast calls in progress
  msgs,      \* pubsub messages published and not yet delivered
  running,   \* Playable._isStarted of each PubsubReplicator
  boot,      \* BootstrapReplicator: its state, handler and peers to dial
  nplay,     \* number of replicator start / stop calls that can still be made
  welo,      \* Welo: opened, _opening and the Database instances
  pure,      \* a pure function under check: its input and its outputs
  monitor,   \* Monitor of the peers of a pubsub topic
  opal       \* Opal: its lifecycle and the start / stop calls made on it

vars == <<acl, registry, isStarted, lifepc, graph, root, pointer, blocks,
          idblocks, calls, last, ncalls, nstops, lastRead, walk, listening,
          bcast, msgs, running, boot, nplay, welo, pure, rootblock,
          monitor, opal>>

(***************************************************************************)
(* Entries.  An entry is its content; its CID is its index in registry, so *)
(* equal content has equal CID.                                            *)
(***************************************************************************)
Cids == 1 .. Len(registry)

EntryNext(c) == registry[c].next
EntryId(c) == registry[c].id
EntryTag(c) == registry[c].tag

\* the CID of a content: the index it has, or the next free one
CidOf(content) ==
  IF \E c \in Cids : registry[c] = content
    THEN CHOOSE c \in Cids : registry[c] = content
    ELSE Len(registry) + 1

RECURSIVE Clock(_)
Clock(c) ==
  IF EntryNext(c) = {} THEN 1
  ELSE 1 + (CHOOSE m \in {Clock(n) : n \in EntryNext(c)} :
              \A k \in {Clock(n) : n \in EntryNext(c)} : k <= m)

(***************************************************************************)
(* Graph: the partitions of the entry hashes observed by one replica.      *)
(***************************************************************************)
EmptyGraph ==
  [accepted |-> {}, edges |-> {}, heads |-> {}, tails |-> {},
   missing |-> {}, denied |-> {}]

GraphRoot(g) ==
  [heads |-> g.heads, tails |-> g.tails, missing |-> g.missing,
   denied |-> g.denied]

GraphEquals(g, h) == GraphRoot(g) = GraphRoot(h)

GraphHas(g, c) == c \in g.accepted

GraphKnown(g, c) == c \in g.accepted \cup g.missing

GraphDeny(g, c) ==
  [g EXCEPT !.denied = @ \cup {c},
            !.accepted = @ \ {c},
            !.heads = @ \ {c},
            !.tails = @ \ {c},
            !.missing = @ \ {c}]

\* Graph.add that records every link outside accepted as missing
GraphAddLinksMissing(g, c, next) ==
  IF c \in g.denied \/ c \in g.accepted THEN g
  ELSE IF c \in next THEN GraphDeny(g, c)
  ELSE
    LET referrers == {x \in g.accepted : <<x, c>> \in g.edges}
        resolved == next \cap g.accepted
    IN [accepted |-> g.accepted \cup {c},
        edges |-> g.edges \cup {<<c, n>> : n \in next},
        heads |-> (g.heads \ next) \cup (IF referrers = {} THEN {c} ELSE {}),
        tails |-> (g.tails \ referrers) \cup (IF resolved = {} THEN {c} ELSE {}),
        missing |-> (g.missing \ {c}) \cup (next \ g.accepted),
        denied |-> g.denied]

GraphAdd(g, c, next) ==
  IF c \in g.denied \/ c \in g.accepted THEN g
  ELSE IF c \in next THEN GraphDeny(g, c)
  ELSE
    LET referrers == {x \in g.accepted : <<x, c>> \in g.edges}
        resolved == next \cap g.accepted
    IN [accepted |-> g.accepted \cup {c},
        edges |-> g.edges \cup {<<c, n>> : n \in next},
        heads |-> (g.heads \ next) \cup (IF referrers = {} THEN {c} ELSE {}),
        tails |-> (g.tails \ referrers) \cup (IF resolved = {} THEN {c} ELSE {}),
        missing |-> (g.missing \ {c}) \cup (next \ (g.accepted \cup g.denied)),
        denied |-> g.denied]

(***************************************************************************)
(* Traversal: best-first walk ordered by the comparator.                   *)
(***************************************************************************)
sortEntries(a, b) ==
  \/ Clock(a) > Clock(b)
  \/ Clock(a) = Clock(b) /\ a < b

sortEntriesRev(a, b) == sortEntries(b, a)

Before(dir, a, b) ==
  IF dir = "descend" THEN sortEntries(a, b) ELSE sortEntriesRev(a, b)

graphLinks(g, boundary, edge, c) ==
  IF c \in boundary THEN {}
  ELSE IF edge = "out"
    THEN {n \in g.accepted : <<c, n>> \in g.edges}
    ELSE {x \in g.accepted : <<x, c>> \in g.edges}

SeqToSet(s) == {s[i] : i \in 1 .. Len(s)}

RECURSIVE traverser(_, _, _, _, _, _)
traverser(g, boundary, edge, dir, queue, out) ==
  IF queue = {} THEN out
  ELSE
    LET e == CHOOSE x \in queue : \A y \in queue \ {x} : Before(dir, x, y)
        fresh == graphLinks(g, boundary, edge, e) \ (SeqToSet(out) \cup {e})
    IN traverser(g, boundary, edge, dir, (queue \ {e}) \cup fresh,
                 Append(out, e))

(***************************************************************************)
(* Access controller.                                                      *)
(***************************************************************************)
canAppend(c) == EntryId(c) \in acl \/ wildcard \in acl

(***************************************************************************)
(* Replica: calls in flight.                                               *)
(***************************************************************************)
IdleCall ==
  [op |-> "none", pc |-> "idle", batch |-> <<>>, i |-> 0,
   clone |-> Null, cap |-> Null, result |-> "", order |-> "",
   seen0 |-> FALSE, alone |-> TRUE, late |-> FALSE]

\* read: what getRoot found when the start in progress began
IdleLife == [pc |-> "idle", cap |-> Null, read |-> ""]

Slots == DOMAIN calls["A"]

InFlight(r) == {s \in Slots : calls[r][s].op # "none"}

\* calls in flight fill the first slots, in the order of their arrival
FreeSlot(r) == Cardinality(InFlight(r)) + 1

\* PQueue tasks of the Replica: neither add nor write ever enqueues one
QueuePending(r) == {}

\* the batch was merged before: every entry of it that carries the
\* manifest's tag is already accepted or denied
Seen(g, batch) ==
  \A k \in 1 .. Len(batch) :
    \/ batch[k] \in g.accepted \cup g.denied
    \/ batch[k] \in Cids /\ EntryTag(batch[k]) # ManifestTag

\* a call returns: its slot is freed and it becomes the last returned call
Outcome(rec) ==
  [op |-> rec.op, result |-> rec.result, order |-> rec.order,
   seen0 |-> rec.seen0]

\* a call of broadcast that has not read the heads yet
NewBroadcast == [pc |-> "encode", data |-> Null]

\* the write event reaching broadcast whether the replicator runs or not
NotifiedAlways(r, rec) == rec.op = "write" /\ rec.result = "ok"

\* the write event of a write that returns reaches broadcast while the
\* replicator has its listener registered on the Replica
Notified(r, rec) == rec.op = "write" /\ rec.result = "ok" /\ listening[r]

Finish(r, s, rec) ==
  /\ calls' = [calls EXCEPT ![r] =
       [t \in Slots |->
          IF t < s THEN calls[r][t]
          ELSE IF t + 1 \in Slots THEN calls[r][t + 1]
          ELSE IdleCall]]
  /\ last' = [last EXCEPT ![r] = Outcome(rec)]
  /\ bcast' = IF Notified(r, rec)
                THEN [bcast EXCEPT ![r] = Append(@, NewBroadcast)]
                ELSE bcast

\* a call enters slot s; a call made while a stop is in progress is late,
\* and a call is alone as long as no other call and no stop overlaps it
Enter(r, s, rec) ==
  LET busy == InFlight(r) # {}
      late == lifepc[r].pc = "stopping"
  IN calls' = [calls EXCEPT ![r] =
       [t \in Slots |->
          IF t = s
            THEN [rec EXCEPT !.alone = ~busy /\ ~late, !.late = late]
          ELSE IF calls[r][t].op # "none"
            THEN [calls[r][t] EXCEPT !.alone = FALSE]
            ELSE calls[r][t]]]

\* Replica.add up to its first await: the clone of the live Graph
AddBegin(r, s, rec, batch) ==
  IF graph[r] = Null
    THEN /\ last' = [last EXCEPT ![r] =
                Outcome([rec EXCEPT !.result = "err_graph"])]
         /\ calls' = [calls EXCEPT ![r][s] = IdleCall]
    ELSE /\ Enter(r, s, [rec EXCEPT !.batch = batch, !.i = 1,
                          !.clone = graph[r],
                          !.seen0 = Seen(graph[r], batch),
                          !.pc = IF Len(batch) = 0 THEN "compare" ELSE "put"])
         /\ UNCHANGED last

AddCall(r, batch) ==
  /\ ncalls > 0
  /\ InFlight(r) # Slots
  /\ ncalls' = ncalls - 1
  /\ AddBegin(r, FreeSlot(r),
              [IdleCall EXCEPT !.op = "add"], batch)
  /\ UNCHANGED <<acl, rootblock, monitor, opal, isStarted, lifepc, graph, root, pointer, blocks,
                 idblocks, nstops, lastRead, walk,
                 listening, bcast,
                 running, nplay, welo, pure>>

\* the loop body without the tag check: every entry is put and admitted
PutStepAnyTag(r, s) ==
  LET c == calls[r][s]
      e == c.batch[c.i]
  IN /\ c.pc = "put"
     /\ blocks' = [blocks EXCEPT ![r] = @ \cup {e}]
     /\ idblocks' = [idblocks EXCEPT ![r] = @ \cup {EntryId(e)}]
     /\ calls' = [calls EXCEPT ![r][s].pc = "admit"]
     /\ UNCHANGED <<acl, rootblock, monitor, opal, registry, isStarted, lifepc, graph, root, pointer,
                    last, ncalls, nstops, lastRead, walk,
                    listening, bcast, msgs,
                    running, boot, nplay, welo, pure>>

\* loop body of Replica.add up to the access check: tag check and the puts
PutStep(r, s) ==
  LET c == calls[r][s]
      e == c.batch[c.i]
      after == IF c.i = Len(c.batch) THEN "compare" ELSE "put"
  IN /\ c.pc = "put"
     /\ IF EntryTag(e) # ManifestTag
          THEN /\ calls' = [calls EXCEPT ![r][s].i = c.i + 1,
                                         ![r][s].pc = after]
               /\ UNCHANGED <<blocks, idblocks>>
          ELSE /\ blocks' = [blocks EXCEPT ![r] = @ \cup {e}]
               /\ idblocks' = [idblocks EXCEPT ![r] = @ \cup {EntryId(e)}]
               /\ calls' = [calls EXCEPT ![r][s].pc = "admit"]
     /\ UNCHANGED <<acl, rootblock, monitor, opal, registry, isStarted, lifepc, graph, root, pointer,
                    last, ncalls, nstops, lastRead, walk,
                    listening, bcast, msgs,
                    running, boot, nplay, welo, pure>>

\* loop body of Replica.add: blocks.put of the entry or of its identity
\* throws; add rejects where it is, after the entries it has admitted
PutFails(r, s) ==
  LET c == calls[r][s]
  IN /\ c.pc = "put"
     /\ c.op = "add"
     /\ Finish(r, s, [c EXCEPT !.result = "err_put"])
     /\ UNCHANGED <<acl, rootblock, monitor, opal, registry, isStarted, lifepc, graph, root, pointer,
                    blocks, idblocks, ncalls, nstops, lastRead, walk,
                    listening, msgs, running, boot, nplay, welo, pure>>

\* every entry added, whatever the access check says
AdmitAll(g, e) == GraphAdd(g, e, EntryNext(e))

\* entries added with only the links that are already in the Graph
AdmitResolved(g, e) ==
  IF canAppend(e) THEN GraphAdd(g, e, EntryNext(e) \cap g.accepted)
  ELSE GraphDeny(g, e)

\* entries added without their links
AdmitUnlinked(g, e) ==
  IF canAppend(e) THEN GraphAdd(g, e, {}) ELSE GraphDeny(g, e)

\* the branch of Replica.add on the access check
Admit(g, e) ==
  IF canAppend(e) THEN GraphAdd(g, e, EntryNext(e)) ELSE GraphDeny(g, e)

AdmitStep(r, s) ==
  LET c == calls[r][s]
      e == c.batch[c.i]
      after == IF c.i = Len(c.batch) THEN "compare" ELSE "put"
  IN /\ c.pc = "admit"
     /\ IF graph[r] = Null
          THEN /\ Finish(r, s, [c EXCEPT !.result = "err_graph"])
               /\ UNCHANGED graph
          ELSE /\ graph' = [graph EXCEPT ![r] = Admit(graph[r], e)]
               /\ calls' = [calls EXCEPT ![r][s].i = c.i + 1,
                                         ![r][s].pc = after]
               /\ UNCHANGED <<last, bcast>>
     /\ UNCHANGED <<acl, rootblock, monitor, opal, registry, isStarted, lifepc, root, pointer, blocks,
                    idblocks, ncalls, nstops, lastRead, walk,
                    listening, msgs,
                    running, boot, nplay, welo, pure>>

\* write dispatched before the add it waits for
ReturnedEarlyWrite(c) ==
  [c EXCEPT !.result = "ok",
            !.order = IF c.op = "write" THEN "w" \o c.order ELSE c.order]

\* what a call that returns normally has emitted: write follows the add
Returned(c) ==
  [c EXCEPT !.result = "ok",
            !.order = IF c.op = "write" THEN c.order \o "w" ELSE c.order]

\* the root updated after every batch
AlwaysUpdate(g, clone) == TRUE

\* the root is updated when the Graph differs from the clone
NeedsUpdate(g, clone) == ~GraphEquals(g, clone)

\* end of Replica.add: compare with the clone, read the root to persist
CompareStep(r, s) ==
  LET c == calls[r][s]
  IN /\ c.pc = "compare"
     /\ IF graph[r] = Null
          THEN Finish(r, s, [c EXCEPT !.result = "err_graph"])
          ELSE IF NeedsUpdate(graph[r], c.clone)
                 THEN /\ calls' = [calls EXCEPT ![r][s].pc = "persist",
                                                ![r][s].cap = graph[r]]
                      /\ UNCHANGED <<last, bcast>>
                 ELSE Finish(r, s, Returned(c))
     /\ UNCHANGED <<acl, rootblock, monitor, opal, registry, isStarted, lifepc, graph, root, pointer,
                    blocks, idblocks, ncalls, nstops, lastRead, walk,
                    listening, msgs,
                    running, boot, nplay, welo, pure>>

\* Replica.#updateRoot after encodeRoot: setRoot, root, the update event
PersistStep(r, s) ==
  LET c == calls[r][s]
  IN /\ c.pc = "persist"
     /\ pointer' = [pointer EXCEPT ![r] = c.cap]
     /\ rootblock' = [rootblock EXCEPT ![r] = TRUE]
     /\ root' = [root EXCEPT ![r] = GraphRoot(c.cap)]
     /\ Finish(r, s, Returned([c EXCEPT !.order = c.order \o "u"]))
     /\ UNCHANGED <<acl, monitor, opal, registry, isStarted, lifepc, graph, blocks,
                    idblocks, ncalls, nstops, lastRead, walk,
                    listening, msgs,
                    running, boot, nplay, welo, pure>>

\* setRoot: the two puts run side by side under Promise.all; one of them
\* rejects, the other one is done all the same, and #updateRoot throws
\* before this.root is set
PersistFails(r, s, part) ==
  LET c == calls[r][s]
  IN /\ c.pc = "persist"
     /\ IF part = "block"
          THEN /\ pointer' = [pointer EXCEPT ![r] = c.cap]
               /\ rootblock' = [rootblock EXCEPT ![r] =
                     /\ rootblock[r]
                     /\ pointer[r] # Null
                     /\ GraphRoot(pointer[r]) = GraphRoot(c.cap)]
          ELSE UNCHANGED <<pointer, rootblock>>
     /\ Finish(r, s, [c EXCEPT !.result = "err_root"])
     /\ UNCHANGED <<acl, monitor, opal, registry, isStarted, lifepc, graph,
                    root, blocks, idblocks, ncalls, nstops, lastRead, walk,
                    listening, msgs, running, boot, nplay, welo, pure>>

\* write without the guard
WriteUnguarded(r) == TRUE

\* the guard of Replica.write
WriteAllowed(r) == isStarted[r]

\* Replica.write up to the put of the entry block: guard, heads, create
WriteCall(r, payload) ==
  LET rec == [IdleCall EXCEPT !.op = "write"]
  IN /\ ncalls > 0
     /\ InFlight(r) # Slots
     /\ ncalls' = ncalls - 1
     /\ IF ~WriteAllowed(r)
          THEN /\ last' = [last EXCEPT ![r] =
                      Outcome([rec EXCEPT !.result = "err_not_started"])]
               /\ UNCHANGED <<calls, registry>>
          ELSE IF graph[r] = Null
          THEN /\ last' = [last EXCEPT ![r] =
                      Outcome([rec EXCEPT !.result = "err_graph"])]
               /\ UNCHANGED <<calls, registry>>
          ELSE LET content == [id |-> r, tag |-> ManifestTag,
                               payload |-> payload, next |-> graph[r].heads]
                   cid == CidOf(content)
               IN /\ registry' = IF cid \in Cids THEN registry
                                 ELSE Append(registry, content)
                  /\ Enter(r, FreeSlot(r),
                           [rec EXCEPT !.pc = "wput", !.batch = <<cid>>])
                  /\ UNCHANGED last
     /\ UNCHANGED <<acl, rootblock, monitor, opal, isStarted, lifepc, graph, root, pointer, blocks,
                    idblocks, nstops, lastRead, walk,
                    listening, bcast, msgs,
                    running, boot, nplay, welo, pure>>

\* Replica.write: put of the entry block, then the call of add([entry])
WritePutStep(r, s) ==
  LET c == calls[r][s]
  IN /\ c.pc = "wput"
     /\ blocks' = [blocks EXCEPT ![r] = @ \cup {c.batch[1]}]
     /\ IF graph[r] = Null
          THEN Finish(r, s, [c EXCEPT !.result = "err_graph"])
          ELSE /\ calls' = [calls EXCEPT ![r][s] =
                      [c EXCEPT !.i = 1, !.clone = graph[r],
                                !.seen0 = Seen(graph[r], c.batch),
                                !.pc = "put"]]
               /\ UNCHANGED <<last, bcast>>
     /\ UNCHANGED <<acl, rootblock, monitor, opal, registry, isStarted, lifepc, graph, root, pointer,
                    idblocks, ncalls, nstops, lastRead, walk,
                    listening, msgs,
                    running, boot, nplay, welo, pure>>

(***************************************************************************)
(* Replica: start and stop.                                                *)
(***************************************************************************)
\* getRoot: the datastore has the pointer and the blockstore the block
Readable(r) == pointer[r] # Null /\ rootblock[r]

\* starting with a Graph that is built without the root that was loaded
StartBeginEmpty(r) ==
  /\ ~isStarted[r]
  /\ lifepc[r].pc = "idle"
  /\ graph' = [graph EXCEPT ![r] = EmptyGraph]
  /\ lifepc' = [lifepc EXCEPT ![r] =
       [pc |-> "starting", cap |-> pointer[r],
        read |-> IF pointer[r] = Null THEN "absent" ELSE "ok"]]
  /\ UNCHANGED <<acl, rootblock, monitor, opal, registry, isStarted, root, pointer, blocks, idblocks,
                 calls, last, ncalls, nstops, lastRead, walk,
                 listening, bcast, msgs,
                 running, boot, nplay, welo, pure>>

\* starting: getRoot and the construction of the Graph from it
StartBegin(r) ==
  /\ ~isStarted[r]
  /\ lifepc[r].pc = "idle"
  /\ graph' = [graph EXCEPT ![r] =
                 IF Readable(r) THEN pointer[r] ELSE EmptyGraph]
  /\ lifepc' = [lifepc EXCEPT ![r] =
       [pc |-> "starting",
        cap |-> IF Readable(r) THEN pointer[r] ELSE Null,
        read |-> IF pointer[r] = Null THEN "absent"
                 ELSE IF rootblock[r] THEN "ok" ELSE "failed"]]
  /\ UNCHANGED <<acl, rootblock, monitor, opal, registry, isStarted, root, pointer, blocks, idblocks,
                 calls, last, ncalls, nstops, lastRead, walk,
                 listening, bcast, msgs,
                 running, boot, nplay, welo, pure>>

\* starting when the root pointer is there but getRoot fails to read the
\* root: the catch turns the failure into "no root"
StartUnreadable(r) ==
  /\ ~isStarted[r]
  /\ lifepc[r].pc = "idle"
  /\ pointer[r] # Null
  /\ graph' = [graph EXCEPT ![r] = EmptyGraph]
  /\ lifepc' = [lifepc EXCEPT ![r] =
       [pc |-> "starting", cap |-> Null, read |-> "failed"]]
  /\ UNCHANGED <<acl, rootblock, monitor, opal, registry, isStarted, root, pointer, blocks, idblocks,
                 calls, last, ncalls, nstops, lastRead, walk,
                 listening, bcast, msgs,
                 running, boot, nplay, welo, pure>>

\* starting that sets no root when there is none to load
StartRootSkipsPersist(r) ==
  /\ lifepc[r].pc = "starting"
  /\ IF lifepc[r].cap = Null
       THEN UNCHANGED root
       ELSE root' = [root EXCEPT ![r] = GraphRoot(lifepc[r].cap)]
  /\ isStarted' = [isStarted EXCEPT ![r] = TRUE]
  /\ lifepc' = [lifepc EXCEPT ![r] = IdleLife]
  /\ UNCHANGED <<acl, rootblock, monitor, opal, registry, graph, pointer, blocks, idblocks, calls,
                 last, ncalls, nstops, lastRead, walk,
                 listening, bcast, msgs,
                 running, boot, nplay, welo, pure>>

\* starting: the root that was loaded, or the first root to persist
StartRoot(r) ==
  /\ lifepc[r].pc = "starting"
  /\ IF lifepc[r].cap = Null
       THEN /\ lifepc' = [lifepc EXCEPT ![r] =
                            [pc |-> "persisting", cap |-> graph[r],
                             read |-> lifepc[r].read]]
            /\ UNCHANGED <<root, isStarted>>
       ELSE /\ root' = [root EXCEPT ![r] = GraphRoot(lifepc[r].cap)]
            /\ isStarted' = [isStarted EXCEPT ![r] = TRUE]
            /\ lifepc' = [lifepc EXCEPT ![r] = IdleLife]
  /\ UNCHANGED <<acl, rootblock, monitor, opal, registry, graph, pointer, blocks, idblocks, calls,
                 last, ncalls, nstops, lastRead, walk,
                 listening, bcast, msgs,
                 running, boot, nplay, welo, pure>>

\* starting: #updateRoot of a new database, then the replica is started
StartPersist(r) ==
  /\ lifepc[r].pc = "persisting"
  /\ pointer' = [pointer EXCEPT ![r] = lifepc[r].cap]
  /\ rootblock' = [rootblock EXCEPT ![r] = TRUE]
  /\ root' = [root EXCEPT ![r] = GraphRoot(lifepc[r].cap)]
  /\ isStarted' = [isStarted EXCEPT ![r] = TRUE]
  /\ lifepc' = [lifepc EXCEPT ![r] = IdleLife]
  /\ UNCHANGED <<acl, monitor, opal, registry, graph, blocks, idblocks, calls, last,
                 ncalls, nstops, lastRead, walk,
                 listening, bcast, msgs,
                 running, boot, nplay, welo, pure>>

\* stop is called: stopping awaits the queue to be idle
StopBegin(r) ==
  /\ isStarted[r]
  /\ lifepc[r].pc = "idle"
  /\ nstops > 0
  /\ ncalls > 0
  /\ nstops' = nstops - 1
  /\ ncalls' = ncalls - 1
  /\ lifepc' = [lifepc EXCEPT ![r] =
       [pc |-> "stopping", cap |-> Null, read |-> ""]]
  /\ calls' = [calls EXCEPT ![r] =
       [s \in Slots |->
          IF calls[r][s].op # "none"
            THEN [calls[r][s] EXCEPT !.alone = FALSE]
            ELSE calls[r][s]]]
  /\ UNCHANGED <<acl, rootblock, monitor, opal, registry, isStarted, graph, root, pointer, blocks,
                 idblocks, last, lastRead, walk,
                 listening, bcast, msgs,
                 running, boot, nplay, welo, pure>>

\* stopping: the queue is idle, the Graph is released
StopEnd(r) ==
  /\ lifepc[r].pc = "stopping"
  /\ QueuePending(r) = {}
  /\ graph' = [graph EXCEPT ![r] = Null]
  /\ isStarted' = [isStarted EXCEPT ![r] = FALSE]
  /\ lifepc' = [lifepc EXCEPT ![r] = IdleLife]
  /\ UNCHANGED <<acl, rootblock, monitor, opal, registry, root, pointer, blocks, idblocks, calls,
                 last, ncalls, nstops, lastRead, walk,
                 listening, bcast, msgs,
                 running, boot, nplay, welo, pure>>

(***************************************************************************)
(* Replica: has, known, traverse.                                          *)
(***************************************************************************)
\* has and known without the guard
ReadUnguarded(r) == TRUE

\* the guard of Replica.has and Replica.known
ReadAllowed(r) == isStarted[r]

ReplicaRead(r, kind, c) ==
  IF ~ReadAllowed(r) THEN "err_not_started"
  ELSE IF graph[r] = Null THEN "err_graph"
  ELSE IF kind = "has" THEN (IF GraphHas(graph[r], c) THEN "yes" ELSE "no")
  ELSE (IF GraphKnown(graph[r], c) THEN "yes" ELSE "no")

Read(r, kind, c) ==
  /\ lastRead' = [r |-> r, kind |-> kind, cid |-> c,
                  result |-> ReplicaRead(r, kind, c),
                  tick |-> 1 - lastRead.tick]
  /\ UNCHANGED <<acl, rootblock, monitor, opal, registry, isStarted, lifepc, graph, root, pointer,
                 blocks, idblocks, calls, last, ncalls, nstops, walk,
                 listening, bcast, msgs,
                 running, boot, nplay, welo, pure>>

\* a walk that starts from heads and is bounded by tails in both directions
WalkedFromHeads(g, dir) ==
  IF dir = "descend"
    THEN traverser(g, g.tails, "out", dir, g.heads, <<>>)
  ELSE IF dir = "ascend"
    THEN traverser(g, g.tails, "in", dir, g.heads, <<>>)
  ELSE <<"err_direction">>

\* a walk that takes every other direction for descend
WalkedAnyDirection(g, dir) ==
  IF dir = "ascend"
    THEN traverser(g, g.heads, "in", dir, g.tails, <<>>)
  ELSE traverser(g, g.tails, "out", "descend", g.heads, <<>>)

\* Replica.traverse after the clone: the frontier, the edge and the order
\* by direction, then the walk
Walked(g, dir) ==
  IF dir = "descend"
    THEN traverser(g, g.tails, "out", dir, g.heads, <<>>)
  ELSE IF dir = "ascend"
    THEN traverser(g, g.heads, "in", dir, g.tails, <<>>)
  ELSE <<"err_direction">>

\* the traversal of the persisted root instead of a clone of the live Graph
TraversePersisted(r, dir) ==
  IF pointer[r] = Null THEN <<"err_graph">> ELSE Walked(pointer[r], dir)

\* Replica.traverse as one step: clone of the live Graph, then the walk
Traverse(r, dir) ==
  IF graph[r] = Null THEN <<"err_graph">> ELSE Walked(graph[r], dir)

\* Replica.traverse as a call in progress: the clone is taken when traverse
\* is called, the walk over it runs while other calls go on
IdleWalk == [pc |-> "idle", dir |-> "", clone |-> Null, result |-> <<>>]

Directions == {"descend", "ascend", "sideways"}

TraverseCall(r, dir) ==
  /\ walk[r].pc # "walking"
  /\ walk' = [walk EXCEPT ![r] =
       IF graph[r] = Null
         THEN [pc |-> "done", dir |-> dir, clone |-> Null,
               result |-> <<"err_graph">>]
         ELSE [pc |-> "walking", dir |-> dir, clone |-> graph[r],
               result |-> <<>>]]
  /\ UNCHANGED <<acl, rootblock, monitor, opal, registry, isStarted, lifepc, graph, root, pointer,
                 blocks, idblocks, calls, last, ncalls, nstops, lastRead,
                 listening, bcast, msgs,
                 running, boot, nplay, welo, pure>>

\* the walk over the Graph as it is when traverse returns
TraverseReturnLive(r) ==
  /\ walk[r].pc = "walking"
  /\ walk' = [walk EXCEPT ![r].pc = "done",
                          ![r].result = Traverse(r, walk[r].dir)]
  /\ UNCHANGED <<acl, rootblock, monitor, opal, registry, isStarted, lifepc, graph, root, pointer,
                 blocks, idblocks, calls, last, ncalls, nstops, lastRead,
                 listening, bcast, msgs,
                 running, boot, nplay, welo, pure>>

\* traverse returns the walk over its clone, or throws on the direction
TraverseReturn(r) ==
  /\ walk[r].pc = "walking"
  /\ walk' = [walk EXCEPT ![r].pc = "done",
                          ![r].result = Walked(walk[r].clone, walk[r].dir)]
  /\ UNCHANGED <<acl, rootblock, monitor, opal, registry, isStarted, lifepc, graph, root, pointer,
                 blocks, idblocks, calls, last, ncalls, nstops, lastRead,
                 listening, bcast, msgs,
                 running, boot, nplay, welo, pure>>

(***************************************************************************)
(* Head exchange: a replica merges the heads of a peer.                    *)
(***************************************************************************)
getHeads(r) == graph[r].heads

Fetchable(c) ==
  \E t \in Replicas : c \in blocks[t] /\ EntryId(c) \in idblocks[t]

\* the entries reached from the heads through links the replica has not
RECURSIVE Walk(_, _, _)
Walk(r, queue, out) ==
  IF queue = {} THEN out
  ELSE
    LET e == CHOOSE x \in queue : \A y \in queue \ {x} : sortEntries(x, y)
        links == {n \in EntryNext(e) :
                    Fetchable(n) /\ ~GraphHas(graph[r], n)}
    IN Walk(r, (queue \ {e}) \cup (links \ (SeqToSet(out) \cup {e})),
            Append(out, e))

addHeads(r, heads) == Walk(r, {h \in heads : Fetchable(h)}, <<>>)

\* the heads of the peer added as they are, without the entries they link to
MergeHeadsOnly(r, s) ==
  /\ r # s
  /\ isStarted[r]
  /\ graph[r] # Null
  /\ graph[s] # Null
  /\ getHeads(s) # {}
  /\ AddCall(r, Walk(r, {}, <<CHOOSE h \in getHeads(s) : TRUE>>))
  /\ UNCHANGED <<registry, msgs, boot>>

\* PubsubReplicator.parseHeads: the heads received from a peer are merged
Merge(r, s) ==
  /\ r # s
  /\ isStarted[r]
  /\ graph[r] # Null
  /\ graph[s] # Null
  /\ getHeads(s) # {}
  /\ AddCall(r, addHeads(r, getHeads(s)))
  /\ UNCHANGED <<registry, msgs, boot>>

\* add called with one entry that exists, written here or signed elsewhere
AddEntry(r, c) ==
  /\ AddCall(r, <<c>>)
  /\ UNCHANGED <<registry, msgs, boot>>

(***************************************************************************)
(* PubsubReplicator: heads are published on every write and the heads that *)
(* are received are merged.                                                *)
(***************************************************************************)
protocol == "replicator/pubsub/1.0.0/"

\* the address of the manifest the replicas share
Address == "db"

\* the topic of the replicator of r
Protocol(r) == protocol \o Address

\* the topic of another database that is open on the same nodes
OtherTopic == protocol \o "other"

\* the topics the pubsub service of the node of r is subscribed to: the one
\* of its replicator while that runs, and the one of the other database
Subscriptions(r) ==
  (IF listening[r] THEN {Protocol(r)} ELSE {}) \cup {OtherTopic}

\* the raw bytes of a hash: the digits of its number, most significant first
RECURSIVE HashBytes(_)
HashBytes(c) ==
  IF c < 4 THEN <<c>> ELSE Append(HashBytes(c \div 4), c % 4)

\* the hash that a run of raw bytes names
RECURSIVE HashOf(_)
HashOf(bytes) ==
  IF Len(bytes) = 1 THEN bytes[1]
  ELSE 4 * HashOf(SubSeq(bytes, 1, Len(bytes) - 1)) + bytes[Len(bytes)]

\* a set of heads as the list that is encoded: ascending hashes
RECURSIVE HeadList(_)
HeadList(heads) ==
  IF heads = {} THEN <<>>
  ELSE LET h == CHOOSE x \in heads : \A y \in heads : x <= y
       IN <<h>> \o HeadList(heads \ {h})

\* the heads encoded in ascending order, whatever the order of the list
RECURSIVE encodeHeadsSorted(_)
encodeHeadsSorted(heads) ==
  LET sorted == HeadList(SeqToSet(heads))
  IN IF sorted = <<>> THEN <<>>
     ELSE <<Len(HashBytes(sorted[1]))>> \o HashBytes(sorted[1]) \o
          encodeHeadsSorted(Tail(sorted))

\* the bytes of a list of heads: each hash as its length and its raw bytes
RECURSIVE encodeHeads(_)
encodeHeads(heads) ==
  IF heads = <<>> THEN <<>>
  ELSE <<Len(HashBytes(heads[1]))>> \o HashBytes(heads[1]) \o
       encodeHeads(Tail(heads))

\* the list read back from the bytes; the structure is validated, and bytes
\* that end before a hash is complete are a decode error
RECURSIVE decodeHeads(_)
decodeHeads(data) ==
  IF data = <<>> THEN [ok |-> TRUE, heads |-> <<>>]
  ELSE LET n == data[1]
       IN IF n = 0 \/ Len(data) < n + 1
            THEN [ok |-> FALSE, heads |-> <<>>]
            ELSE LET rest == decodeHeads(SubSeq(data, n + 2, Len(data)))
                 IN IF ~rest.ok THEN rest
                    ELSE [ok |-> TRUE,
                          heads |-> <<HashOf(SubSeq(data, 2, n + 1))>> \o
                                    rest.heads]

Without(seq, i) ==
  [k \in 1 .. Len(seq) - 1 |-> IF k < i THEN seq[k] ELSE seq[k + 1]]

\* starting: the listeners are registered, the topic is subscribed to
ReplicatorStart(r) ==
  /\ ~listening[r]
  /\ listening' = [listening EXCEPT ![r] = TRUE]
  /\ running' = [running EXCEPT ![r] = TRUE]
  /\ UNCHANGED <<acl, rootblock, monitor, opal, registry, isStarted, lifepc, graph, root, pointer,
                 blocks, idblocks, calls, last, ncalls, nstops, lastRead,
                 walk, bcast, msgs,
                 boot, nplay, welo, pure>>

\* stopping: the listeners are removed, the topic is unsubscribed from
ReplicatorStop(r) ==
  /\ listening[r]
  /\ listening' = [listening EXCEPT ![r] = FALSE]
  /\ running' = [running EXCEPT ![r] = FALSE]
  /\ UNCHANGED <<acl, rootblock, monitor, opal, registry, isStarted, lifepc, graph, root, pointer,
                 blocks, idblocks, calls, last, ncalls, nstops, lastRead,
                 walk, bcast, msgs,
                 boot, nplay, welo, pure>>

\* broadcast: encodeHeads reads the heads of the Replica as they are now;
\* without a Graph the call fails and nobody hears of it
BroadcastEncode(r, i) ==
  /\ i \in DOMAIN bcast[r]
  /\ bcast[r][i].pc = "encode"
  /\ bcast' = [bcast EXCEPT ![r] =
       IF graph[r] = Null THEN Without(@, i)
       ELSE [@ EXCEPT ![i] = [pc |-> "publish",
                              data |-> encodeHeads(HeadList(getHeads(r)))]]]
  /\ UNCHANGED <<acl, rootblock, monitor, opal, registry, isStarted, lifepc, graph, root, pointer,
                 blocks, idblocks, calls, last, ncalls, nstops, lastRead,
                 walk, listening, msgs,
                 running, boot, nplay, welo, pure>>

\* a failing publish that makes the write that caused it fail
BroadcastFailsWrite(r, i) ==
  /\ i \in DOMAIN bcast[r]
  /\ bcast[r][i].pc = "publish"
  /\ bcast' = [bcast EXCEPT ![r] = Without(@, i)]
  /\ last' = [last EXCEPT ![r].result = "err_publish"]
  /\ UNCHANGED <<acl, rootblock, monitor, opal, registry, isStarted, lifepc, graph, root, pointer,
                 blocks, idblocks, calls, ncalls, nstops, lastRead,
                 walk, listening, msgs,
                 running, boot, nplay, welo, pure>>

\* broadcast: publish fails; the promise of broadcast, which the dispatch of
\* the write event dropped, is rejected
BroadcastFail(r, i) ==
  /\ i \in DOMAIN bcast[r]
  /\ bcast[r][i].pc = "publish"
  /\ bcast' = [bcast EXCEPT ![r] = Without(@, i)]
  /\ UNCHANGED <<acl, rootblock, monitor, opal, registry, isStarted, lifepc, graph, root, pointer,
                 blocks, idblocks, calls, last, ncalls, nstops, lastRead,
                 walk, listening, msgs,
                 running, boot, nplay, welo, pure>>

\* broadcast: publish on the topic of the replicator; the message goes to
\* every other node that is subscribed to the topic
BroadcastPublish(r, i) ==
  /\ i \in DOMAIN bcast[r]
  /\ bcast[r][i].pc = "publish"
  /\ bcast' = [bcast EXCEPT ![r] = Without(@, i)]
  /\ msgs' = msgs \cup
       {[topic |-> Protocol(r), to |-> t, data |-> bcast[r][i].data] :
          t \in {u \in Replicas \ {r} : Protocol(r) \in Subscriptions(u)}}
  /\ UNCHANGED <<acl, rootblock, monitor, opal, registry, isStarted, lifepc, graph, root, pointer,
                 blocks, idblocks, calls, last, ncalls, nstops, lastRead,
                 walk, listening,
                 running, boot, nplay, welo, pure>>

\* a peer of the other database publishes heads of that database
PublishOther(t, c) ==
  /\ EntryTag(c) # ManifestTag
  /\ msgs' = msgs \cup
       {[topic |-> OtherTopic, to |-> t, data |-> encodeHeads(<<c>>)]}
  /\ UNCHANGED <<acl, rootblock, monitor, opal, registry, isStarted, lifepc, graph, root, pointer,
                 blocks, idblocks, calls, last, ncalls, nstops, lastRead,
                 walk, listening, bcast,
                 running, boot, nplay, welo, pure>>

\* a listener that handles only the messages of the topic of its replicator
ReceivesOwnTopic(r, m) ==
  /\ listening[r]
  /\ m.topic \in Subscriptions(r)
  /\ m.topic = Protocol(r)

\* the listener of the message event of the pubsub service is called with
\* every message the node receives, on whatever topic
Receives(r, m) ==
  /\ listening[r]
  /\ m.topic \in Subscriptions(r)

\* a peer publishes a list of heads on the topic of the replicator of r
Announce(r, heads) ==
  /\ msgs = {}
  /\ msgs' = {[topic |-> Protocol(r), to |-> r, data |-> encodeHeads(heads)]}
  /\ UNCHANGED <<acl, rootblock, monitor, opal, registry, isStarted, lifepc, graph, root, pointer,
                 blocks, idblocks, calls, last, ncalls, nstops, lastRead,
                 walk, listening, bcast,
                 running, boot, nplay, welo, pure>>

\* parseHeads that gives up on a message when one of its heads cannot be
\* fetched
DeliverAllOrNothing(r, m) ==
  /\ m \in msgs
  /\ m.to = r
  /\ Receives(r, m)
  /\ msgs' = msgs \ {m}
  /\ IF \/ ~decodeHeads(m.data).ok
        \/ graph[r] = Null
        \/ \E h \in SeqToSet(decodeHeads(m.data).heads) : ~Fetchable(h)
       THEN UNCHANGED <<acl, rootblock, monitor, opal, isStarted, lifepc, graph, root, pointer,
                        blocks, idblocks, calls, last, ncalls, nstops,
                        lastRead, walk, listening, bcast,
                        running, nplay, welo, pure>>
       ELSE AddCall(r, addHeads(r, SeqToSet(decodeHeads(m.data).heads)))
  /\ UNCHANGED <<registry, boot>>

\* parseHeads: the heads of the message are decoded and merged; bytes that
\* do not decode make parseHeads fail before addHeads, and without a Graph
\* the merge fails before add is called
Deliver(r, m) ==
  /\ m \in msgs
  /\ m.to = r
  /\ Receives(r, m)
  /\ msgs' = msgs \ {m}
  /\ IF ~decodeHeads(m.data).ok \/ graph[r] = Null
       THEN UNCHANGED <<acl, rootblock, monitor, opal, isStarted, lifepc, graph, root, pointer,
                        blocks, idblocks, calls, last, ncalls, nstops,
                        lastRead, walk, listening, bcast,
                        running, nplay, welo, pure>>
       ELSE AddCall(r, addHeads(r, SeqToSet(decodeHeads(m.data).heads)))
  /\ UNCHANGED <<registry, boot>>

(***************************************************************************)
(* BootstrapReplicator: on start the heads of the peers that provide the   *)
(* manifest are pulled and merged; the heads are served to peers that dial. *)
(***************************************************************************)
\* a BootstrapReplicator that was not started
IdleBoot == [pc |-> "stopped", handler |-> FALSE, peers |-> <<>>]

\* a provider whose reply to the dial is not an encoded list of heads
BadPeer == "bad"

\* a provider that accepts the dial and then neither sends nor closes its
\* stream
SilentPeer == "silent"

\* bytes that announce a hash of two bytes and end after one
Malformed == <<2, 1>>

\* the handler of the protocol: the encoded heads of the replica dialed
Reply(p) ==
  IF p = BadPeer THEN Malformed
  ELSE IF p \in Replicas THEN encodeHeads(HeadList(getHeads(p)))
  ELSE <<>>

\* dialProtocol or the reading of the reply throws: the peer has no handler
\* for the protocol, or its handler fails for want of a Graph
DialFails(p) == p \in Replicas /\ (~boot[p].handler \/ graph[p] = Null)

\* starting: the handler is registered, the providers are about to be dialed
BootStart(r, peers) ==
  /\ boot[r].pc = "stopped"
  /\ boot' = [boot EXCEPT ![r] =
       [pc |-> "starting", handler |-> TRUE, peers |-> peers]]
  /\ UNCHANGED <<acl, rootblock, monitor, opal, registry, isStarted, lifepc, graph, root, pointer,
                 blocks, idblocks, calls, last, ncalls, nstops, lastRead,
                 walk, listening, bcast, msgs, running, nplay, welo, pure>>

\* a failure in the loop over the peers skips the peer and goes on
SkipPeer(b) == [b EXCEPT !.peers = Tail(b.peers)]

\* the catch around the loop over the peers: the failure is logged, the loop
\* is over and starting returns
Caught(b) == [b EXCEPT !.pc = "running", !.peers = <<>>]

\* starting, one turn of the loop: self is skipped; the peer is dialed, its
\* reply decoded and its heads handed to add. Neither dialProtocol nor the
\* read of the stream is given a signal or a timeout: the read of a stream
\* that is never closed does not return
BootDial(r) ==
  LET p == Head(boot[r].peers)
      heads == decodeHeads(Reply(p))
  IN /\ boot[r].pc = "starting"
     /\ boot[r].peers # <<>>
     /\ IF p = r
          THEN /\ boot' = [boot EXCEPT ![r] = SkipPeer(boot[r])]
               /\ UNCHANGED <<calls, last, ncalls>>
          ELSE IF p = SilentPeer
          THEN /\ boot' = [boot EXCEPT ![r].pc = "reading"]
               /\ UNCHANGED <<calls, last, ncalls>>
          ELSE IF DialFails(p) \/ ~heads.ok \/ graph[r] = Null
          THEN /\ boot' = [boot EXCEPT ![r] = Caught(boot[r])]
               /\ UNCHANGED <<calls, last, ncalls>>
          ELSE /\ boot' = [boot EXCEPT ![r].pc = "merging"]
               /\ ncalls > 0
               /\ InFlight(r) # Slots
               /\ ncalls' = ncalls - 1
               /\ AddBegin(r, FreeSlot(r), [IdleCall EXCEPT !.op = "add"],
                           addHeads(r, SeqToSet(heads.heads)))
     /\ UNCHANGED <<acl, rootblock, monitor, opal, registry, isStarted, lifepc, graph, root, pointer,
                    blocks, idblocks, nstops, lastRead, walk, listening,
                    bcast, msgs, running, nplay, welo, pure>>

\* starting: the add of the heads of a peer has returned; the next peer
BootMerged(r) ==
  /\ boot[r].pc = "merging"
  /\ \A s \in Slots : calls[r][s].op # "add"
  /\ boot' = [boot EXCEPT ![r] =
       IF last[r].op = "add" /\ last[r].result # "ok"
         THEN Caught(boot[r])
         ELSE [SkipPeer(boot[r]) EXCEPT !.pc = "starting"]]
  /\ UNCHANGED <<acl, rootblock, monitor, opal, registry, isStarted, lifepc, graph, root, pointer,
                 blocks, idblocks, calls, last, ncalls, nstops, lastRead,
                 walk, listening, bcast, msgs, running, nplay, welo, pure>>

\* starting: no provider is left, the replicator runs
BootDone(r) ==
  /\ boot[r].pc = "starting"
  /\ boot[r].peers = <<>>
  /\ boot' = [boot EXCEPT ![r].pc = "running"]
  /\ UNCHANGED <<acl, rootblock, monitor, opal, registry, isStarted, lifepc, graph, root, pointer,
                 blocks, idblocks, calls, last, ncalls, nstops, lastRead,
                 walk, listening, bcast, msgs, running, nplay, welo, pure>>

\* stopping that leaves the handler of the protocol registered
BootStopKeepsHandler(r) ==
  /\ boot[r].pc = "running"
  /\ boot' = [boot EXCEPT ![r].pc = "stopped"]
  /\ UNCHANGED <<acl, rootblock, monitor, opal, registry, isStarted, lifepc, graph, root, pointer,
                 blocks, idblocks, calls, last, ncalls, nstops, lastRead,
                 walk, listening, bcast, msgs, running, nplay, welo, pure>>

\* stopping: the handler of the protocol is removed
BootStop(r) ==
  /\ boot[r].pc = "running"
  /\ boot' = [boot EXCEPT ![r] = IdleBoot]
  /\ UNCHANGED <<acl, rootblock, monitor, opal, registry, isStarted, lifepc, graph, root, pointer,
                 blocks, idblocks, calls, last, ncalls, nstops, lastRead,
                 walk, listening, bcast, msgs, running, nplay, welo, pure>>

\* Playable: start called on a replicator that runs or is starting, stop
\* called on one that does not run; neither starting nor stopping is run
PlayAgain(r, kind, op) ==
  /\ nplay > 0
  /\ nplay' = nplay - 1
  /\ IF kind = "pubsub"
       THEN (op = "start" /\ running[r]) \/ (op = "stop" /\ ~running[r])
       ELSE \/ op = "start" /\ boot[r].pc # "stopped"
            \/ op = "stop" /\ boot[r].pc # "running"
  /\ UNCHANGED <<acl, rootblock, monitor, opal, registry, isStarted, lifepc, graph, root, pointer,
                 blocks, idblocks, calls, last, ncalls, nstops, lastRead,
                 walk, listening, bcast, msgs, running, boot, welo, pure>>

(***************************************************************************)
(* Monitor and Opal as constructed.                                        *)
(***************************************************************************)
\* a Monitor as its constructor leaves it, of which n calls can be made
NewMonitor(n) ==
  [isStarted |-> FALSE, peers |-> {}, polls |-> <<>>, timers |-> 0,
   events |-> <<>>, ncalls |-> n]

\* an Opal as its constructor leaves it, of which n calls can be made
NewOpal(n) ==
  [isStarted |-> FALSE, starting |-> FALSE, stopping |-> FALSE,
   calls |-> <<>>, last |-> "none", starts |-> 0, stops |-> 0, ncalls |-> n]

(***************************************************************************)
(* Welo: the databases it opens, one per manifest address, and their close. *)
(***************************************************************************)
\* the addresses of the manifests a Welo is asked to open
Addrs == {"db", "other"}

\* a Welo as Welo.create returns it, started and with no database, of which
\* n open / close / stop calls can be made
NewWelo(n) ==
  [opened |-> [a \in Addrs |-> 0],
   opening |-> [a \in Addrs |-> 0],
   opens |-> <<>>,
   dbs |-> <<>>,
   started |-> TRUE,
   ncalls |-> n]

\* a Database that Database.open has returned, started, with the closed
\* listener of its Welo
NewDatabase(a) ==
  [addr |-> a, started |-> TRUE, listener |-> TRUE, calls |-> 0,
   pending |-> 0, closed |-> 0]

\* open calls of address a whose Database.open has not settled
Pending(w, a) ==
  {k \in DOMAIN w.opens : w.opens[k].addr = a /\ w.opens[k].pc = "pending"}

\* open refused only when the database is open already
OpenRejectedIfOpened(w, a) == w.opened[a] # 0

\* the guards of Welo.open: the database is open or is being opened
OpenRejected(w, a) == w.opened[a] # 0 \/ w.opening[a] # 0

\* Welo.open up to its await: the guards, Database.open called, the promise
\* stored in _opening
WeloOpen(a) ==
  /\ welo.ncalls > 0
  /\ welo' =
       IF OpenRejected(welo, a)
         THEN [welo EXCEPT !.ncalls = @ - 1,
                           !.opens = Append(@, [addr |-> a,
                                                pc |-> "rejected"])]
         ELSE [welo EXCEPT !.ncalls = @ - 1,
                           !.opens = Append(@, [addr |-> a,
                                                pc |-> "pending"]),
                           !.opening[a] = Len(welo.opens) + 1]
  /\ UNCHANGED <<acl, rootblock, monitor, opal, registry, isStarted, lifepc, graph, root, pointer,
                 blocks, idblocks, calls, last, ncalls, nstops, lastRead,
                 walk, listening, bcast, msgs, running, boot, nplay, pure>>

\* Welo.open of a manifest for which a component is not registered: the
\* guards pass, open throws before Database.open is called
WeloOpenMissing(a) ==
  /\ welo.ncalls > 0
  /\ welo' =
       [welo EXCEPT !.ncalls = @ - 1,
                    !.opens = Append(@, [addr |-> a,
                                         pc |-> IF OpenRejected(welo, a)
                                                  THEN "rejected"
                                                  ELSE "missing"])]
  /\ UNCHANGED <<acl, rootblock, monitor, opal, registry, isStarted, lifepc,
                 graph, root, pointer, blocks, idblocks, calls, last, ncalls,
                 nstops, lastRead, walk, listening, bcast, msgs, running,
                 boot, nplay, pure>>

\* Database.open resolves: the then of Welo.open stores the database in
\* opened and listens for its closed event
DbOpened(k) ==
  /\ k \in DOMAIN welo.opens
  /\ welo.opens[k].pc = "pending"
  /\ welo' = [welo EXCEPT !.dbs = Append(@, NewDatabase(welo.opens[k].addr)),
                          !.opened[welo.opens[k].addr] = Len(welo.dbs) + 1,
                          !.opens[k].pc = "then"]
  /\ UNCHANGED <<acl, rootblock, monitor, opal, registry, isStarted, lifepc, graph, root, pointer,
                 blocks, idblocks, calls, last, ncalls, nstops, lastRead,
                 walk, listening, bcast, msgs, running, boot, nplay, pure>>

\* Database.open rejects: the catch of Welo.open
DbOpenFails(k) ==
  /\ k \in DOMAIN welo.opens
  /\ welo.opens[k].pc = "pending"
  /\ welo' = [welo EXCEPT !.opens[k].pc = "catch"]
  /\ UNCHANGED <<acl, rootblock, monitor, opal, registry, isStarted, lifepc, graph, root, pointer,
                 blocks, idblocks, calls, last, ncalls, nstops, lastRead,
                 walk, listening, bcast, msgs, running, boot, nplay, pure>>

\* a Welo.open that takes the address out of _opening only when
\* Database.open has resolved
OpenSettledOnSuccess(k) ==
  /\ k \in DOMAIN welo.opens
  /\ welo.opens[k].pc \in {"then", "catch"}
  /\ welo' = [welo EXCEPT !.opening[welo.opens[k].addr] =
                            IF welo.opens[k].pc = "then" THEN 0 ELSE @,
                          !.opens[k].pc =
                            IF welo.opens[k].pc = "then" THEN "resolved"
                            ELSE "failed"]
  /\ UNCHANGED <<acl, rootblock, monitor, opal, registry, isStarted, lifepc,
                 graph, root, pointer, blocks, idblocks, calls, last, ncalls,
                 nstops, lastRead, walk, listening, bcast, msgs, running,
                 boot, nplay, pure>>

\* the finally of Welo.open: the address leaves _opening, open returns
OpenSettled(k) ==
  /\ k \in DOMAIN welo.opens
  /\ welo.opens[k].pc \in {"then", "catch"}
  /\ welo' = [welo EXCEPT !.opening[welo.opens[k].addr] = 0,
                          !.opens[k].pc =
                            IF welo.opens[k].pc = "then" THEN "resolved"
                            ELSE "failed"]
  /\ UNCHANGED <<acl, rootblock, monitor, opal, registry, isStarted, lifepc, graph, root, pointer,
                 blocks, idblocks, calls, last, ncalls, nstops, lastRead,
                 walk, listening, bcast, msgs, running, boot, nplay, pure>>

\* the values held by a Map
MapValues(map) == {map[a] : a \in DOMAIN map} \ {0}

\* Object.values of a Map: a Map has no own enumerable property, whatever
\* it holds
ObjectValues(map) == {}

\* stopping of Welo: the opens in _opening are awaited, the databases in
\* opened are stopped; both are listed with Object.values
WeloStop ==
  /\ welo.ncalls > 0
  /\ welo.started
  /\ \A k \in ObjectValues(welo.opening) :
       welo.opens[k].pc \notin {"pending", "then", "catch"}
  /\ welo' = [welo EXCEPT
       !.ncalls = @ - 1,
       !.started = FALSE,
       !.dbs = [d \in DOMAIN @ |->
                  IF d \in ObjectValues(welo.opened)
                    THEN [@[d] EXCEPT !.started = FALSE]
                    ELSE @[d]]]
  /\ UNCHANGED <<acl, rootblock, monitor, opal, registry, isStarted, lifepc,
                 graph, root, pointer, blocks, idblocks, calls, last, ncalls,
                 nstops, lastRead, walk, listening, bcast, msgs, running,
                 boot, nplay, pure>>

\* Database.close up to its dispatch: stop of the database
DbClose(d) ==
  /\ welo.ncalls > 0
  /\ d \in DOMAIN welo.dbs
  /\ welo' = [welo EXCEPT !.ncalls = @ - 1,
                          !.dbs[d].started = FALSE,
                          !.dbs[d].calls = @ + 1,
                          !.dbs[d].pending = @ + 1]
  /\ UNCHANGED <<acl, rootblock, monitor, opal, registry, isStarted, lifepc, graph, root, pointer,
                 blocks, idblocks, calls, last, ncalls, nstops, lastRead,
                 walk, listening, bcast, msgs, running, boot, nplay, pure>>

\* the closed event dispatched to a Welo that keeps the database in opened
DbClosedKept(d) ==
  /\ d \in DOMAIN welo.dbs
  /\ welo.dbs[d].pending > 0
  /\ welo' = [welo EXCEPT !.dbs[d].pending = @ - 1,
                          !.dbs[d].closed = @ + 1,
                          !.dbs[d].listener = FALSE]
  /\ UNCHANGED <<acl, rootblock, monitor, opal, registry, isStarted, lifepc, graph, root, pointer,
                 blocks, idblocks, calls, last, ncalls, nstops, lastRead,
                 walk, listening, bcast, msgs, running, boot, nplay, pure>>

\* Database.close: the closed event is dispatched; the listener of Welo,
\* registered once, deletes the address from opened
DbClosed(d) ==
  /\ d \in DOMAIN welo.dbs
  /\ welo.dbs[d].pending > 0
  /\ welo' = [welo EXCEPT !.dbs[d].pending = @ - 1,
                          !.dbs[d].closed = @ + 1,
                          !.dbs[d].listener = FALSE,
                          !.opened[welo.dbs[d].addr] =
                            IF welo.dbs[d].listener THEN 0 ELSE @]
  /\ UNCHANGED <<acl, rootblock, monitor, opal, registry, isStarted, lifepc, graph, root, pointer,
                 blocks, idblocks, calls, last, ncalls, nstops, lastRead,
                 walk, listening, bcast, msgs, running, boot, nplay, pure>>

(***************************************************************************)
(* Monitor: polls the peers of a pubsub topic and emits peer-join,         *)
(* peer-leave and update.                                                  *)
(***************************************************************************)
\* the peers the pubsub service can report for the topic
MonPeers == {"p", "q"}

\* the events emitted for the peers of a set, each with the update that the
\* listeners of the constructor emit for it
RECURSIVE Emitted(_, _)
Emitted(type, set) ==
  IF set = {} THEN <<>>
  ELSE LET p == CHOOSE x \in set : TRUE
       IN <<[type |-> type, peer |-> p], [type |-> "update", peer |-> p]>>
          \o Emitted(type, set \ {p})

\* _poll up to its await: the peers of now are kept to compare with
NewPoll(m) == [old |-> m.peers]

\* a _poll that goes on whether the Monitor is started or not
PollNeverDiscarded(m) == FALSE

\* _poll after the query: the check that ends the poll of a stopped Monitor
PollDiscarded(m) == ~m.isStarted

\* Monitor.start: nothing when started; else refresh is called, which polls
MonStart ==
  /\ monitor.ncalls > 0
  /\ monitor' =
       IF monitor.isStarted
         THEN [monitor EXCEPT !.ncalls = @ - 1]
         ELSE [monitor EXCEPT !.ncalls = @ - 1,
                              !.isStarted = TRUE,
                              !.polls = Append(@, NewPoll(monitor))]
  /\ UNCHANGED <<acl, rootblock, opal, registry, isStarted, lifepc, graph,
                 root, pointer, blocks, idblocks, calls, last, ncalls,
                 nstops, lastRead, walk, listening, bcast, msgs, running,
                 boot, nplay, welo, pure>>

\* Monitor.stop: nothing when stopped; else the flag is cleared, and neither
\* the timer nor the poll in flight is touched
MonStop ==
  /\ monitor.ncalls > 0
  /\ monitor' = [monitor EXCEPT !.ncalls = @ - 1, !.isStarted = FALSE]
  /\ UNCHANGED <<acl, rootblock, opal, registry, isStarted, lifepc, graph,
                 root, pointer, blocks, idblocks, calls, last, ncalls,
                 nstops, lastRead, walk, listening, bcast, msgs, running,
                 boot, nplay, welo, pure>>

\* the timer set by refresh fires: refresh polls again
TimerFires ==
  /\ monitor.ncalls > 0
  /\ monitor.timers > 0
  /\ monitor' = [monitor EXCEPT !.ncalls = @ - 1,
                                !.timers = @ - 1,
                                !.polls = Append(@, NewPoll(monitor))]
  /\ UNCHANGED <<acl, rootblock, opal, registry, isStarted, lifepc, graph,
                 root, pointer, blocks, idblocks, calls, last, ncalls,
                 nstops, lastRead, walk, listening, bcast, msgs, running,
                 boot, nplay, welo, pure>>

\* the peers query of a poll resolves with the peers ps: the poll of a
\* stopped Monitor ends there; else peers is replaced, the joins and the
\* leaves against the peers kept at the start of the poll are emitted, and
\* the then of refresh sets the timer of the next poll
PollResolve(i, ps) ==
  /\ i \in DOMAIN monitor.polls
  /\ monitor' =
       IF PollDiscarded(monitor)
         THEN [monitor EXCEPT !.polls = Without(@, i)]
         ELSE [monitor EXCEPT
                 !.polls = Without(@, i),
                 !.peers = ps,
                 !.events = @ \o Emitted("peer-join", ps \ monitor.polls[i].old)
                              \o Emitted("peer-leave", monitor.polls[i].old \ ps),
                 !.timers = @ + 1]
  /\ UNCHANGED <<acl, rootblock, opal, registry, isStarted, lifepc, graph,
                 root, pointer, blocks, idblocks, calls, last, ncalls,
                 nstops, lastRead, walk, listening, bcast, msgs, running,
                 boot, nplay, welo, pure>>

(***************************************************************************)
(* Opal: start and stop, with the promises _starting and _stopping.        *)
(***************************************************************************)
\* a call of start or stop that has not returned, and where it waits
OpalCall(op, pc) == [op |-> op, pc |-> pc]

\* Opal.start up to its first await
OpalStart ==
  /\ opal.ncalls > 0
  /\ opal' =
       IF opal.isStarted
         THEN [opal EXCEPT !.ncalls = @ - 1, !.last = "start"]
       ELSE IF opal.starting
         THEN [opal EXCEPT !.ncalls = @ - 1, !.last = "start",
                           !.calls = Append(@, OpalCall("start", "joined"))]
       ELSE IF opal.stopping
         THEN [opal EXCEPT !.ncalls = @ - 1, !.last = "start",
                           !.calls = Append(@, OpalCall("start", "waiting"))]
       ELSE [opal EXCEPT !.ncalls = @ - 1, !.last = "start",
                         !.isStarted = TRUE,
                         !.starting = TRUE,
                         !.starts = @ + 1,
                         !.calls = Append(@, OpalCall("start", "finally"))]
  /\ UNCHANGED <<acl, rootblock, monitor, registry, isStarted, lifepc, graph,
                 root, pointer, blocks, idblocks, calls, last, ncalls,
                 nstops, lastRead, walk, listening, bcast, msgs, running,
                 boot, nplay, welo, pure>>

\* Opal.stop up to its first await
OpalStop ==
  /\ opal.ncalls > 0
  /\ opal' =
       IF ~opal.isStarted
         THEN [opal EXCEPT !.ncalls = @ - 1, !.last = "stop"]
       ELSE IF opal.stopping
         THEN [opal EXCEPT !.ncalls = @ - 1, !.last = "stop",
                           !.calls = Append(@, OpalCall("stop", "joined"))]
       ELSE IF opal.starting
         THEN [opal EXCEPT !.ncalls = @ - 1, !.last = "stop",
                           !.calls = Append(@, OpalCall("stop", "waiting"))]
       ELSE [opal EXCEPT !.ncalls = @ - 1, !.last = "stop",
                         !.stopping = TRUE,
                         !.calls = Append(@, OpalCall("stop", "running"))]
  /\ UNCHANGED <<acl, rootblock, monitor, registry, isStarted, lifepc, graph,
                 root, pointer, blocks, idblocks, calls, last, ncalls,
                 nstops, lastRead, walk, listening, bcast, msgs, running,
                 boot, nplay, welo, pure>>

\* the body of _stopping after its awaits: the stop event, _isStarted
OpalStopped(k) ==
  /\ k \in DOMAIN opal.calls
  /\ opal.calls[k] = OpalCall("stop", "running")
  /\ opal' = [opal EXCEPT !.isStarted = FALSE,
                          !.stops = @ + 1,
                          !.calls[k].pc = "finally"]
  /\ UNCHANGED <<acl, rootblock, monitor, registry, isStarted, lifepc, graph,
                 root, pointer, blocks, idblocks, calls, last, ncalls,
                 nstops, lastRead, walk, listening, bcast, msgs, running,
                 boot, nplay, welo, pure>>

\* the finally of start or stop: the promise is forgotten, the call returns
OpalFinally(k) ==
  /\ k \in DOMAIN opal.calls
  /\ opal.calls[k].pc = "finally"
  /\ opal' = IF opal.calls[k].op = "start"
               THEN [opal EXCEPT !.starting = FALSE,
                                 !.calls = Without(@, k)]
               ELSE [opal EXCEPT !.stopping = FALSE,
                                 !.calls = Without(@, k)]
  /\ UNCHANGED <<acl, rootblock, monitor, registry, isStarted, lifepc, graph,
                 root, pointer, blocks, idblocks, calls, last, ncalls,
                 nstops, lastRead, walk, listening, bcast, msgs, running,
                 boot, nplay, welo, pure>>

\* a call that awaited the promise of the same transition returns with it
OpalJoined(k) ==
  /\ k \in DOMAIN opal.calls
  /\ opal.calls[k].pc = "joined"
  /\ IF opal.calls[k].op = "start" THEN ~opal.starting ELSE ~opal.stopping
  /\ opal' = [opal EXCEPT !.calls = Without(@, k)]
  /\ UNCHANGED <<acl, rootblock, monitor, registry, isStarted, lifepc, graph,
                 root, pointer, blocks, idblocks, calls, last, ncalls,
                 nstops, lastRead, walk, listening, bcast, msgs, running,
                 boot, nplay, welo, pure>>

\* a call that awaited the opposite transition goes on: it makes its own
\* transition without looking at the state again
OpalResumed(k) ==
  /\ k \in DOMAIN opal.calls
  /\ opal.calls[k].pc = "waiting"
  /\ IF opal.calls[k].op = "start" THEN ~opal.stopping ELSE ~opal.starting
  /\ opal' = IF opal.calls[k].op = "start"
               THEN [opal EXCEPT !.isStarted = TRUE,
                                 !.starting = TRUE,
                                 !.starts = @ + 1,
                                 !.calls[k].pc = "finally"]
               ELSE [opal EXCEPT !.stopping = TRUE,
                                 !.calls[k].pc = "running"]
  /\ UNCHANGED <<acl, rootblock, monitor, registry, isStarted, lifepc, graph,
                 root, pointer, blocks, idblocks, calls, last, ncalls,
                 nstops, lastRead, walk, listening, bcast, msgs, running,
                 boot, nplay, welo, pure>>

(***************************************************************************)
(* Register: the components of one kind, by type, and the star component.  *)
(***************************************************************************)
\* the types of the components that are added
Types == {"a", "b", "c"}

\* a Register as its constructor leaves it, of which n calls can be made
NewRegister(n) ==
  [registered |-> {}, star |-> "none", arg |-> "none", type |-> "none",
   result |-> "", ncalls |-> n]

\* the keys held by a Map
MapKeys(reg) == reg.registered

\* Object.keys of a Map: a Map has no own enumerable property, whatever it
\* holds
ObjectKeys(reg) == {}

\* the default of the star argument of Register.add
DefaultStar(reg) == Cardinality(ObjectKeys(reg)) = 0

\* Register.add with the star argument given ("true", "false") or left out
RegisterAdd(type, arg) ==
  LET star == IF arg = "default" THEN DefaultStar(pure) ELSE arg = "true"
  IN /\ pure # Null
     /\ "registered" \in DOMAIN pure
     /\ pure.ncalls > 0
     /\ pure' =
          IF type \in pure.registered
            THEN [pure EXCEPT !.ncalls = @ - 1, !.arg = arg, !.type = type,
                              !.result = "typeRegistered"]
            ELSE [pure EXCEPT !.ncalls = @ - 1, !.arg = arg, !.type = type,
                              !.result = "ok",
                              !.registered = @ \cup {type},
                              !.star = IF star THEN type ELSE @]
     /\ UNCHANGED <<acl, rootblock, monitor, opal, registry, isStarted,
                    lifepc, graph, root, pointer, blocks, idblocks, calls,
                    last, ncalls, nstops, lastRead, walk, listening, bcast,
                    msgs, running, boot, nplay, welo>>

\* the entry signed elsewhere, by identity B, that add can be called with
Foreign ==
  << [id |-> "B", tag |-> "tag", payload |-> "f", next |-> {}] >>

(***************************************************************************)
(* Specification.                                                          *)
(***************************************************************************)
Solo == {"A"}

InitCore(access, entries, slots, ncall, nstop) ==
  /\ acl \in access
  /\ registry = entries
  /\ isStarted = [r \in Replicas |-> FALSE]
  /\ lifepc = [r \in Replicas |-> IdleLife]
  /\ graph = [r \in Replicas |-> Null]
  /\ root = [r \in Replicas |-> Null]
  /\ pointer = [r \in Replicas |-> Null]
  /\ rootblock = [r \in Replicas |-> FALSE]
  /\ blocks = [r \in Replicas |-> {}]
  /\ idblocks = [r \in Replicas |-> {}]
  /\ calls = [r \in Replicas |-> [s \in 1 .. slots |-> IdleCall]]
  /\ last = [r \in Replicas |-> Outcome(IdleCall)]
  /\ ncalls = ncall
  /\ nstops = nstop
  /\ lastRead = [r |-> "A", kind |-> "none", cid |-> 0, result |-> "",
                 tick |-> 0]
  /\ walk = [r \in Replicas |-> IdleWalk]
  /\ listening = [r \in Replicas |-> FALSE]
  /\ bcast = [r \in Replicas |-> <<>>]
  /\ msgs = {}
  /\ running = [r \in Replicas |-> FALSE]
  /\ boot = [r \in Replicas |-> IdleBoot]

\* the replicas and their replicators; no replicator start / stop call
\* budget and no Welo
InitWith(access, entries, slots, ncall, nstop) ==
  /\ InitCore(access, entries, slots, ncall, nstop)
  /\ nplay = 0
  /\ welo = NewWelo(0)
  /\ monitor = NewMonitor(0)
  /\ opal = NewOpal(0)
  /\ pure = Null

\* one replica, with overlapping calls, stop and restart
Init == InitWith({{"A"}}, Foreign, MaxInFlight, MaxCalls, MaxStops)

Next ==
  \/ \E r \in Solo : StartBegin(r)
  \/ \E r \in Solo : StartRoot(r)
  \/ \E r \in Solo : StartPersist(r)
  \/ \E r \in Solo : StopBegin(r)
  \/ \E r \in Solo : StopEnd(r)
  \/ \E r \in Solo, p \in Payloads : WriteCall(r, p)
  \/ \E r \in Solo, s \in Slots : WritePutStep(r, s)
  \/ \E r \in Solo, c \in Cids : AddEntry(r, c)
  \/ \E r \in Solo, s \in Slots : PutStep(r, s)
  \/ \E r \in Solo, s \in Slots : AdmitStep(r, s)
  \/ \E r \in Solo, s \in Slots : CompareStep(r, s)
  \/ \E r \in Solo, s \in Slots : PersistStep(r, s)

Spec == Init /\ [][Next]_vars

\* entries that add can be called with besides the one of Foreign: one that
\* carries the tag of another manifest, one that links to an entry nobody has
Mistagged == [id |-> "A", tag |-> "other", payload |-> "t", next |-> {}]
Dangling == [id |-> "A", tag |-> "tag", payload |-> "d", next |-> {99}]

\* add called with a batch of entries that exist
AddBatch(r, batch) ==
  /\ AddCall(r, batch)
  /\ UNCHANGED <<registry, msgs, boot>>

\* batches of one or two entries
Batches ==
  {<<c>> : c \in Cids} \cup
  {<<c, d>> : <<c, d>> \in {p \in Cids \X Cids : p[1] # p[2]}}

\* calls made on the replica one after another
MaxSeqCalls == 3

\* one replica used the way a caller that awaits every call uses it: calls
\* are made on the started replica, each after the one before has returned,
\* and stop is called when no call is in flight
InitSeq ==
  InitWith({{"A"}}, Foreign \o <<Mistagged, Dangling>>, 1, MaxSeqCalls,
           MaxStops)

Awaited(r) == isStarted[r] /\ lifepc[r].pc = "idle" /\ InFlight(r) = {}

NextSeq ==
  \/ \E r \in Solo : StartBegin(r)
  \/ \E r \in Solo : StartRoot(r)
  \/ \E r \in Solo : StartPersist(r)
  \/ \E r \in Solo : Awaited(r) /\ StopBegin(r)
  \/ \E r \in Solo : StopEnd(r)
  \/ \E r \in Solo, p \in Payloads : Awaited(r) /\ WriteCall(r, p)
  \/ \E r \in Solo, s \in Slots : WritePutStep(r, s)
  \/ \E r \in Solo, b \in Batches : Awaited(r) /\ AddBatch(r, b)
  \/ \E r \in Solo, s \in Slots : PutStep(r, s)
  \/ \E r \in Solo, s \in Slots : AdmitStep(r, s)
  \/ \E r \in Solo, s \in Slots : CompareStep(r, s)
  \/ \E r \in Solo, s \in Slots : PersistStep(r, s)

SpecSeq == InitSeq /\ [][NextSeq]_vars

\* one replica used the way a caller that awaits every call uses it, with a
\* blockstore and a datastore whose put can reject during setRoot
NextRoot ==
  \/ NextSeq
  \/ \E r \in Solo, s \in Slots, part \in {"block", "pointer"} :
       PersistFails(r, s, part)

SpecRoot == InitSeq /\ [][NextRoot]_vars

\* calls of add and write made on the replica that is traversed
MaxWalkCalls == 2

\* one replica, open to every writer, that is traversed while add and write
\* go on
InitWalk == InitWith({{wildcard}}, Foreign, MaxInFlight, MaxWalkCalls, 0)

NextWalk ==
  \/ \E r \in Solo : StartBegin(r)
  \/ \E r \in Solo : StartRoot(r)
  \/ \E r \in Solo : StartPersist(r)
  \/ \E r \in Solo, p \in Payloads : WriteCall(r, p)
  \/ \E r \in Solo, s \in Slots : WritePutStep(r, s)
  \/ \E r \in Solo, c \in Cids : AddEntry(r, c)
  \/ \E r \in Solo, s \in Slots : PutStep(r, s)
  \/ \E r \in Solo, s \in Slots : AdmitStep(r, s)
  \/ \E r \in Solo, s \in Slots : CompareStep(r, s)
  \/ \E r \in Solo, s \in Slots : PersistStep(r, s)
  \/ \E r \in Solo, d \in Directions : TraverseCall(r, d)
  \/ \E r \in Solo : TraverseReturn(r)

SpecWalk == InitWalk /\ [][NextWalk]_vars

\* one replica whose stored root can fail to be read when it starts
NextFault ==
  \/ Next
  \/ \E r \in Solo : StartUnreadable(r)

SpecFault == Init /\ [][NextFault]_vars

\* one replica whose has and known are called at any moment
MaxReadCalls == 2

InitRead ==
  InitWith({{"A"}}, Foreign, MaxInFlight, MaxReadCalls, MaxStops)

NextRead ==
  \/ Next
  \/ \E r \in Solo, k \in {"has", "known"}, c \in Cids : Read(r, k, c)

SpecRead == InitRead /\ [][NextRead]_vars

\* the replicas of one manifest writing and exchanging heads
InitNet == InitWith({{"A"}, {wildcard}}, <<>>, 1, MaxNetCalls, 0)

NextNet ==
  \/ \E r \in Replicas : StartBegin(r)
  \/ \E r \in Replicas : StartRoot(r)
  \/ \E r \in Replicas : StartPersist(r)
  \/ \E r \in Replicas, p \in Payloads : WriteCall(r, p)
  \/ \E r \in Replicas, s \in Slots : WritePutStep(r, s)
  \/ \E r \in Replicas, s \in Replicas : Merge(r, s)
  \/ \E r \in Replicas, s \in Slots : PutStep(r, s)
  \/ \E r \in Replicas, s \in Slots : AdmitStep(r, s)
  \/ \E r \in Replicas, s \in Slots : CompareStep(r, s)
  \/ \E r \in Replicas, s \in Slots : PersistStep(r, s)

SpecNet == InitNet /\ [][NextNet]_vars

\* calls of add and write made on the replicas that publish their heads
MaxPubCalls == 2

\* the replicas of one manifest, each with a pubsub replicator that is
\* started and stopped, on nodes that have another database open
InitPub == InitWith({{wildcard}}, <<Mistagged>>, 1, MaxPubCalls, 0)

NextPub ==
  \/ \E r \in Replicas : StartBegin(r)
  \/ \E r \in Replicas : StartRoot(r)
  \/ \E r \in Replicas : StartPersist(r)
  \/ \E r \in Replicas, p \in Payloads : WriteCall(r, p)
  \/ \E r \in Replicas, s \in Slots : WritePutStep(r, s)
  \/ \E r \in Replicas, s \in Slots : PutStep(r, s)
  \/ \E r \in Replicas, s \in Slots : AdmitStep(r, s)
  \/ \E r \in Replicas, s \in Slots : CompareStep(r, s)
  \/ \E r \in Replicas, s \in Slots : PersistStep(r, s)
  \/ \E r \in Replicas : ReplicatorStart(r)
  \/ \E r \in Replicas : ReplicatorStop(r)
  \/ \E r \in Replicas, i \in 1 .. MaxPubCalls : BroadcastEncode(r, i)
  \/ \E r \in Replicas, i \in 1 .. MaxPubCalls : BroadcastPublish(r, i)
  \/ \E r \in Replicas, i \in 1 .. MaxPubCalls : BroadcastFail(r, i)
  \/ \E r \in Replicas, c \in Cids : PublishOther(r, c)
  \/ \E r \in Replicas, m \in msgs : Deliver(r, m)

SpecPub == InitPub /\ [][NextPub]_vars

\* the longest list of heads that is encoded, besides the list of ManyHeads
MaxHeads == 3

\* the number of heads of the long list
ManyHeads == 20

\* hashes whose raw bytes have one, two and three digits
Hashes == {1, 2, 5, 17}

RECURSIVE ListsOf(_)
ListsOf(n) ==
  IF n = 0 THEN {<<>>}
  ELSE ListsOf(n - 1) \cup
       {Append(l, h) : l \in {k \in ListsOf(n - 1) : Len(k) = n - 1},
                       h \in Hashes}

\* the lists of heads that are encoded: every list of up to MaxHeads hashes,
\* in every order and with repetitions, and one list of ManyHeads hashes
HeadLists == ListsOf(MaxHeads) \cup {[i \in 1 .. ManyHeads |-> ManyHeads + 1 - i]}

\* encodeHeads of the replicator: the list of heads to bytes
CodecEncode ==
  /\ pure.pc = "input"
  /\ pure' = [pure EXCEPT !.pc = "encoded", !.data = encodeHeads(pure.heads)]
  /\ UNCHANGED <<acl, rootblock, monitor, opal, registry, isStarted, lifepc, graph, root, pointer,
                 blocks, idblocks, calls, last, ncalls, nstops, lastRead,
                 walk, listening, bcast, msgs, running, boot, nplay, welo>>

\* parseHeads of the replicator: the bytes back to a list of heads
CodecDecode ==
  /\ pure.pc = "encoded"
  /\ pure' = [pure EXCEPT !.pc = "decoded", !.back = decodeHeads(pure.data)]
  /\ UNCHANGED <<acl, rootblock, monitor, opal, registry, isStarted, lifepc, graph, root, pointer,
                 blocks, idblocks, calls, last, ncalls, nstops, lastRead,
                 walk, listening, bcast, msgs, running, boot, nplay, welo>>

\* a list of heads that is encoded and decoded
InitCodec ==
  /\ InitCore({{"A"}}, <<>>, 1, 0, 0)
  /\ nplay = 0
  /\ welo = NewWelo(0)
  /\ monitor = NewMonitor(0)
  /\ opal = NewOpal(0)
  /\ pure \in {[pc |-> "input", heads |-> l, data |-> <<>>,
               back |-> [ok |-> FALSE, heads |-> <<>>]] : l \in HeadLists}

NextCodec ==
  \/ CodecEncode
  \/ CodecDecode

SpecCodec == InitCodec /\ [][NextCodec]_vars

\* calls of add and write on the replicas that pull heads on start
MaxBootCalls == 2

\* the providers the content routing finds for the manifest
MaxPeers == 2

RECURSIVE PeerLists(_)
PeerLists(n) ==
  IF n = 0 THEN {<<>>}
  ELSE PeerLists(n - 1) \cup
       {Append(l, p) : l \in {k \in PeerLists(n - 1) : Len(k) = n - 1},
                       p \in Replicas \cup {BadPeer, SilentPeer}}

Providers == PeerLists(MaxPeers)

\* the providers found for the replicator of r: B, which serves its heads,
\* finds none; A pulls from the providers it finds
ProvidersOf(r) == IF r = "A" THEN Providers ELSE {<<>>}

\* the replicas of one manifest, each with a bootstrap replicator: B writes
\* and serves its heads, A pulls the heads of its providers when it starts
InitBoot ==
  /\ InitCore({{wildcard}}, <<>>, 1, MaxBootCalls, 0)
  /\ nplay = 0
  /\ welo = NewWelo(0)
  /\ monitor = NewMonitor(0)
  /\ opal = NewOpal(0)
  /\ pure = Null

NextBoot ==
  \/ \E r \in Replicas : StartBegin(r)
  \/ \E r \in Replicas : StartRoot(r)
  \/ \E r \in Replicas : StartPersist(r)
  \/ \E r \in {"B"}, p \in Payloads : WriteCall(r, p)
  \/ \E r \in Replicas, s \in Slots : WritePutStep(r, s)
  \/ \E r \in Replicas, s \in Slots : PutStep(r, s)
  \/ \E r \in Replicas, s \in Slots : AdmitStep(r, s)
  \/ \E r \in Replicas, s \in Slots : CompareStep(r, s)
  \/ \E r \in Replicas, s \in Slots : PersistStep(r, s)
  \/ \E r \in Replicas : \E peers \in ProvidersOf(r) : BootStart(r, peers)
  \/ \E r \in Replicas : BootDial(r)
  \/ \E r \in Replicas : BootMerged(r)
  \/ \E r \in Replicas : BootDone(r)
  \/ \E r \in Replicas : BootStop(r)

SpecBoot == InitBoot /\ [][NextBoot]_vars

\* start and stop calls made on a replicator that is already in that state
MaxPlayCalls == 2

\* the replicators of two replicas, started and stopped at any moment, with
\* start called again while they run and stop called again while they do not
InitPlay ==
  /\ InitCore({{wildcard}}, <<>>, 1, 0, 0)
  /\ nplay = MaxPlayCalls
  /\ welo = NewWelo(0)
  /\ monitor = NewMonitor(0)
  /\ opal = NewOpal(0)
  /\ pure = Null

NextPlay ==
  \/ \E r \in Replicas : ReplicatorStart(r)
  \/ \E r \in Replicas : ReplicatorStop(r)
  \/ \E r \in Replicas : \E peers \in ProvidersOf(r) : BootStart(r, peers)
  \/ \E r \in Replicas : BootDial(r)
  \/ \E r \in Replicas : BootDone(r)
  \/ \E r \in Replicas : BootStop(r)
  \/ \E r \in Replicas, k \in {"pubsub", "bootstrap"}, op \in {"start", "stop"} :
       PlayAgain(r, k, op)

SpecPlay == InitPlay /\ [][NextPlay]_vars

\* open and close calls made on a Welo and its databases
MaxWeloCalls == 4

\* a Welo whose open is called for two manifests at any moment, also while
\* an open is in progress, and whose databases are closed at any moment
InitWelo ==
  /\ InitCore({{"A"}}, <<>>, 1, 0, 0)
  /\ nplay = 0
  /\ welo = NewWelo(MaxWeloCalls)
  /\ monitor = NewMonitor(0)
  /\ opal = NewOpal(0)
  /\ pure = Null

NextWelo ==
  \/ \E a \in Addrs : WeloOpen(a)
  \/ \E a \in Addrs : WeloOpenMissing(a)
  \/ \E k \in 1 .. MaxWeloCalls : DbOpened(k)
  \/ \E k \in 1 .. MaxWeloCalls : DbOpenFails(k)
  \/ \E k \in 1 .. MaxWeloCalls : OpenSettled(k)
  \/ \E d \in 1 .. MaxWeloCalls : DbClose(d)
  \/ \E d \in 1 .. MaxWeloCalls : DbClosed(d)
  \/ WeloStop

SpecWelo == InitWelo /\ [][NextWelo]_vars

\* an entry of an authorized writer that links to the entry of Foreign
Linker == [id |-> "A", tag |-> "tag", payload |-> "l", next |-> {1}]

\* calls made on the replica one after another, batches among them
MaxBatchCalls == 3

\* one started replica whose add is called with batches of entries, one call
\* after the other has returned; a put of add can fail, and has and known
\* are called at any moment
InitBatch ==
  InitWith({{"A"}}, Foreign \o <<Linker>>, 1, MaxBatchCalls, 0)

NextBatch ==
  \/ \E r \in Solo : StartBegin(r)
  \/ \E r \in Solo : StartRoot(r)
  \/ \E r \in Solo : StartPersist(r)
  \/ \E r \in Solo, p \in Payloads : Awaited(r) /\ WriteCall(r, p)
  \/ \E r \in Solo, s \in Slots : WritePutStep(r, s)
  \/ \E r \in Solo, b \in Batches : Awaited(r) /\ AddBatch(r, b)
  \/ \E r \in Solo, s \in Slots : PutStep(r, s)
  \/ \E r \in Solo, s \in Slots : PutFails(r, s)
  \/ \E r \in Solo, s \in Slots : AdmitStep(r, s)
  \/ \E r \in Solo, s \in Slots : CompareStep(r, s)
  \/ \E r \in Solo, s \in Slots : PersistStep(r, s)
  \/ \E r \in Solo, k \in {"has", "known"}, c \in Cids : Read(r, k, c)

SpecBatch == InitBatch /\ [][NextBatch]_vars

\* calls of add and write made on the replicas that merge announced heads
MaxMergeCalls == 4

\* the lists of two heads a peer announces
HeadPairs == {<<c, d>> : <<c, d>> \in {p \in Cids \X Cids : p[1] # p[2]}}

\* B writes, and adds an entry whose block no node had so far; A listens to
\* the topic and merges the heads that are announced, two at a time
InitMerge == InitWith({{wildcard}}, Foreign, 1, MaxMergeCalls, 0)

NextMerge ==
  \/ \E r \in Replicas : StartBegin(r)
  \/ \E r \in Replicas : StartRoot(r)
  \/ \E r \in Replicas : StartPersist(r)
  \/ \E r \in Replicas \ Solo, p \in Payloads : Awaited(r) /\ WriteCall(r, p)
  \/ \E r \in Replicas \ Solo, b \in Batches :
       Awaited(r) /\ Len(b) = 1 /\ AddBatch(r, b)
  \/ \E r \in Replicas, s \in Slots : WritePutStep(r, s)
  \/ \E r \in Replicas, s \in Slots : PutStep(r, s)
  \/ \E r \in Replicas, s \in Slots : AdmitStep(r, s)
  \/ \E r \in Replicas, s \in Slots : CompareStep(r, s)
  \/ \E r \in Replicas, s \in Slots : PersistStep(r, s)
  \/ \E r \in Solo : ReplicatorStart(r)
  \/ \E r \in Solo, heads \in HeadPairs : Awaited(r) /\ Announce(r, heads)
  \/ \E r \in Solo, m \in msgs : Deliver(r, m)

SpecMerge == InitMerge /\ [][NextMerge]_vars

\* start and stop calls made on the Monitor, and polls its timers begin
MaxMonitorCalls == 4

\* a Monitor that is started and stopped while the peers of the topic come
\* and go
InitMonitor ==
  /\ InitCore({{"A"}}, <<>>, 1, 0, 0)
  /\ nplay = 0
  /\ welo = NewWelo(0)
  /\ monitor = NewMonitor(MaxMonitorCalls)
  /\ opal = NewOpal(0)
  /\ pure = Null

NextMonitor ==
  \/ MonStart
  \/ MonStop
  \/ TimerFires
  \/ \E i \in 1 .. MaxMonitorCalls, ps \in SUBSET MonPeers : PollResolve(i, ps)

SpecMonitor == InitMonitor /\ [][NextMonitor]_vars

\* start and stop calls made on an Opal
MaxOpalCalls == 4

\* an Opal on which start and stop are called at any moment
InitOpal ==
  /\ InitCore({{"A"}}, <<>>, 1, 0, 0)
  /\ nplay = 0
  /\ welo = NewWelo(0)
  /\ monitor = NewMonitor(0)
  /\ opal = NewOpal(MaxOpalCalls)
  /\ pure = Null

NextOpal ==
  \/ OpalStart
  \/ OpalStop
  \/ \E k \in 1 .. MaxOpalCalls : OpalStopped(k)
  \/ \E k \in 1 .. MaxOpalCalls : OpalFinally(k)
  \/ \E k \in 1 .. MaxOpalCalls : OpalJoined(k)
  \/ \E k \in 1 .. MaxOpalCalls : OpalResumed(k)

SpecOpal == InitOpal /\ [][NextOpal]_vars

\* add calls made on a Register
MaxRegisterCalls == 4

\* a Register to which components are added, with and without the star
\* argument
InitRegister ==
  /\ InitCore({{"A"}}, <<>>, 1, 0, 0)
  /\ nplay = 0
  /\ welo = NewWelo(0)
  /\ monitor = NewMonitor(0)
  /\ opal = NewOpal(0)
  /\ pure = NewRegister(MaxRegisterCalls)

NextRegister ==
  \E type \in Types, arg \in {"default", "true", "false"} : RegisterAdd(type, arg)

SpecRegister == InitRegister /\ [][NextRegister]_vars

\* calls of add and write on the replicas of which one pulls heads on start
MaxHangCalls == 2

\* B writes and serves its heads; then A starts its bootstrap replicator
\* once, with the providers it finds. Every step of A that is ready to run
\* is run in the end: the event loop drops no task
InitHang ==
  /\ InitCore({{wildcard}}, <<>>, 1, MaxHangCalls, 0)
  /\ nplay = 0
  /\ welo = NewWelo(0)
  /\ monitor = NewMonitor(0)
  /\ opal = NewOpal(0)
  /\ pure = Null

NextHang ==
  \/ \E r \in Replicas : StartBegin(r)
  \/ \E r \in Replicas : StartRoot(r)
  \/ \E r \in Replicas : StartPersist(r)
  \/ \E r \in Replicas \ Solo, p \in Payloads :
       boot["A"].pc = "stopped" /\ WriteCall(r, p)
  \/ \E r \in Replicas, s \in Slots : WritePutStep(r, s)
  \/ \E r \in Replicas, s \in Slots : PutStep(r, s)
  \/ \E r \in Replicas, s \in Slots : AdmitStep(r, s)
  \/ \E r \in Replicas, s \in Slots : CompareStep(r, s)
  \/ \E r \in Replicas, s \in Slots : PersistStep(r, s)
  \/ \E r \in Replicas : \E peers \in ProvidersOf(r) : BootStart(r, peers)
  \/ \E r \in Replicas : BootDial(r)
  \/ \E r \in Replicas : BootMerged(r)
  \/ \E r \in Replicas : BootDone(r)

SpecHang ==
  /\ InitHang
  /\ [][NextHang]_vars
  /\ \A r \in Solo :
       /\ WF_vars(BootDial(r))
       /\ WF_vars(BootMerged(r))
       /\ WF_vars(BootDone(r))
       /\ WF_vars(PutStep(r, 1))
       /\ WF_vars(AdmitStep(r, 1))
       /\ WF_vars(CompareStep(r, 1))
       /\ WF_vars(PersistStep(r, 1))

(***************************************************************************)
(* Properties.                                                             *)
(***************************************************************************)
InBody(r) ==
  {s \in Slots : calls[r][s].pc \in {"wput", "put", "admit", "compare",
                                     "persist"}}

\* C1: on one Replica at most one add or write is executing its body at
\* any time; no step of one mutation interleaves with steps of another.
C1_MutationsSerialized ==
  \A r \in Replicas : Cardinality(InBody(r)) <= 1

\* C2: when stop is invoked while an add or write is in flight, the Graph
\* is not released before that mutation has completed: at the step of stop
\* that releases the Graph, the only calls that can still be in flight are
\* those made after the stop began.
C2_StopWaitsForMutations ==
  [][\A r \in Replicas :
       (lifepc[r].pc = "stopping" /\ graph'[r] = Null) =>
         \A s \in InFlight(r) : calls[r][s].late]_vars

C4_WriteNotStarted ==
  [][\A r \in Replicas, p \in Payloads :
       (~isStarted[r] /\ WriteCall(r, p)) =>
         /\ last'[r].op = "write"
         /\ last'[r].result = "err_not_started"
         /\ last'[r].order = ""
         /\ UNCHANGED <<registry, graph, root, pointer, blocks, idblocks,
                        calls>>]_vars

C4_Witness ==
  /\ last["A"].op = "write"
  /\ last["A"].result = "err_not_started"
  /\ ~isStarted["A"]
  /\ nstops < MaxStops

\* C5: has and known fail with the "not started" error whenever the
\* Replica is not started; when it is started the Graph is there and they
\* answer what Graph.has / Graph.known answer for the hash.
C5_ReadsGuarded ==
  [][\A r \in Replicas :
       (lastRead' # lastRead /\ lastRead'.r = r) =>
         IF ~isStarted[r]
           THEN lastRead'.result = "err_not_started"
           ELSE /\ graph[r] # Null
                /\ lastRead'.result =
                     IF lastRead'.kind = "has"
                       THEN (IF lastRead'.cid \in graph[r].accepted
                               THEN "yes" ELSE "no")
                       ELSE (IF lastRead'.cid \in
                                  graph[r].accepted \cup graph[r].missing
                               THEN "yes" ELSE "no")]_vars

C5_Witness ==
  /\ lastRead.kind = "has"
  /\ lastRead.result = "err_not_started"
  /\ graph["A"] = Null
  /\ nstops < MaxStops

\* C6: add persists a new root and emits `update` exactly when the Graph
\* after the batch differs from the clone taken before the batch; a batch
\* that was merged before and is merged again on its own (no other call and
\* no stop meanwhile) changes no partition, so no root is persisted and no
\* `update` is emitted for it.
C6_UpdateIffChanged ==
  [][\A r \in Replicas : \A s \in Slots :
       (CompareStep(r, s) /\ graph[r] # Null) =>
         LET c == calls[r][s]
             returns == Cardinality(InFlight(r))' < Cardinality(InFlight(r))
         IN /\ ~returns <=> (GraphRoot(graph[r]) # GraphRoot(c.clone))
            /\ ~returns => calls'[r][s].pc = "persist"
            /\ returns =>
                 /\ last'[r].op = c.op
                 /\ last'[r].order \in {"", "w"}
                 /\ UNCHANGED <<root, pointer>>
            /\ (Seen(c.clone, c.batch) /\ c.alone) =>
                 (returns /\ graph[r] = c.clone)]_vars

C6_Witness ==
  /\ last["A"].op = "add"
  /\ last["A"].result = "ok"
  /\ last["A"].seen0
  /\ last["A"].order = ""
  /\ graph["A"] # Null
  /\ graph["A"].heads # {}
  /\ root["A"] = GraphRoot(graph["A"])

\* C7: an entry that canAppend refuses is recorded in denied when add
\* processes it, and is never in heads, tails or the accepted set nor in
\* the result of traverse in either direction, however often it is added.
C7_Excluded ==
  \A r \in Replicas : \A c \in Cids :
    (graph[r] # Null /\ ~canAppend(c)) =>
      /\ c \notin graph[r].accepted \cup graph[r].heads \cup graph[r].tails
      /\ c \notin SeqToSet(Traverse(r, "descend"))
      /\ c \notin SeqToSet(Traverse(r, "ascend"))

C7_DeniedRecorded ==
  \A r \in Replicas : \A s \in Slots :
    (AdmitStep(r, s) /\ graph[r] # Null
       /\ ~canAppend(calls[r][s].batch[calls[r][s].i]))
      => calls[r][s].batch[calls[r][s].i] \in graph'[r].denied

C7_AccessExclusion == []C7_Excluded /\ [][C7_DeniedRecorded]_vars

C7_Witness ==
  /\ graph["A"] # Null
  /\ ~canAppend(1)
  /\ 1 \in graph["A"].denied
  /\ graph["A"].heads # {}
  /\ last["A"].op = "add"
  /\ last["A"].seen0
  /\ last["A"].result = "ok"

\* C8: two replicas whose Graphs hold the same set of accepted entries
\* return the same sequence from traverse descend, whatever the order in
\* which each of them wrote, received or merged the entries.
C8_TraverseDeterministic ==
  \A r \in Replicas : \A s \in Replicas :
    (graph[r] # Null /\ graph[s] # Null
       /\ graph[r].accepted = graph[s].accepted) =>
      Traverse(r, "descend") = Traverse(s, "descend")

C8_Witness ==
  /\ graph["A"] # Null
  /\ graph["B"] # Null
  /\ graph["A"].accepted = graph["B"].accepted
  /\ Cardinality(graph["A"].heads) = 2
  /\ Len(Traverse("B", "descend")) = 3
  /\ \E c \in graph["A"].accepted : EntryId(c) = "A"
  /\ \E c \in graph["A"].accepted : EntryId(c) = "B"

\* the Graph after add has processed a batch
RECURSIVE ApplyBatch(_, _)
ApplyBatch(g, batch) ==
  IF batch = <<>> THEN g
  ELSE ApplyBatch(IF EntryTag(Head(batch)) # ManifestTag THEN g
                  ELSE Admit(g, Head(batch)),
                  Tail(batch))

\* head exchange has stabilized: no call is in flight and merging the heads
\* of any replica into any other changes no Graph
Stable ==
  \A r \in Replicas :
    /\ isStarted[r]
    /\ graph[r] # Null
    /\ InFlight(r) = {}
    /\ \A s \in Replicas \ {r} :
         graph[s] # Null /\
         ApplyBatch(graph[r], addHeads(r, getHeads(s))) = graph[r]

\* C9 as stated: once head exchange has stabilized all replicas have the
\* same heads and tails, the same root CID and the same traverse descend
\* sequence.
C9_ConvergedWithRoot ==
  Stable =>
    \A r \in Replicas : \A s \in Replicas :
      /\ graph[r].heads = graph[s].heads
      /\ graph[r].tails = graph[s].tails
      /\ root[r] = root[s]
      /\ Traverse(r, "descend") = Traverse(s, "descend")

\* C9 amended: once head exchange has stabilized all replicas have the same
\* heads and tails and the same traverse descend sequence (the root also
\* covers the denied partition, which is not exchanged).
C9_Converged ==
  Stable =>
    \A r \in Replicas : \A s \in Replicas :
      /\ graph[r].heads = graph[s].heads
      /\ graph[r].tails = graph[s].tails
      /\ Traverse(r, "descend") = Traverse(s, "descend")

C9_Witness ==
  /\ Stable
  /\ Cardinality(graph["A"].accepted) >= 3
  /\ graph["A"].tails # graph["A"].heads
  /\ \E c \in graph["B"].accepted : EntryId(c) = "A"
  /\ \E c \in graph["A"].accepted : EntryId(c) = "B"

\* C10: heads is exactly the set of accepted entries that no accepted entry
\* names in its next; two entries with the same next are both heads.
C10_HeadsUnreferenced ==
  \A r \in Replicas :
    graph[r] # Null =>
      graph[r].heads =
        {a \in graph[r].accepted :
           \A x \in graph[r].accepted : a \notin EntryNext(x)}

C10_Witness ==
  \E e1 \in Cids, a \in Cids, b \in Cids :
    /\ a # b
    /\ EntryNext(e1) = {}
    /\ EntryNext(a) = {e1}
    /\ EntryNext(b) = {e1}
    /\ EntryId(a) = "A"
    /\ EntryId(b) = "B"
    /\ \A r \in Replicas :
         /\ graph[r] # Null
         /\ graph[r].heads = {a, b}
         /\ graph[r].tails = {e1}
         /\ InFlight(r) = {}

\* e1 and e2 form a linear chain written by A: e1 first, then e2 on top
Chain(e1, e2) ==
  /\ EntryId(e1) = "A"
  /\ EntryId(e2) = "A"
  /\ EntryNext(e1) = {}
  /\ EntryNext(e2) = {e1}

\* C11: linear chain.  A replica that holds nothing but the chain E1 <- E2,
\* because it wrote the two entries or because it merged the head list
\* [E2], has heads = {E2}, tails = {E1} and nothing in missing once its call
\* has returned; in particular merging [E2] brings E1 with it.
C11_LinearChain ==
  \A r \in Replicas : \A e1 \in Cids : \A e2 \in Cids :
    (/\ Chain(e1, e2)
     /\ graph[r] # Null
     /\ InFlight(r) = {}
     /\ e2 \in graph[r].accepted
     /\ graph[r].accepted \subseteq {e1, e2}) =>
      /\ graph[r].accepted = {e1, e2}
      /\ graph[r].heads = {e2}
      /\ graph[r].tails = {e1}
      /\ graph[r].missing = {}

C11_Witness ==
  \E e1 \in Cids : \E e2 \in Cids :
    /\ Chain(e1, e2)
    /\ \A r \in Replicas :
         /\ graph[r] # Null
         /\ InFlight(r) = {}
         /\ graph[r].accepted = {e1, e2}
         /\ graph[r].heads = {e2}
         /\ graph[r].tails = {e1}
         /\ graph[r].missing = {}
         /\ graph[r].denied = {}
    /\ last["A"].op = "write"
    /\ last["B"].op = "add"
    /\ last["B"].result = "ok"
    /\ last["B"].order = "u"

\* C12: a start that finds the root pointer but cannot read the root fails:
\* the replica does not become started on an empty Graph and the root
\* pointer that was there is not overwritten.
C12_UnreadableRootFatal ==
  [][\A r \in Replicas :
       lifepc[r].read = "failed" =>
         (~isStarted'[r] /\ (lifepc'[r].pc = "idle" => pointer'[r] = pointer[r]))]_vars

\* C13: restart round-trip.  After calls that were awaited, stop releases a
\* Graph that equals the persisted root; nothing is persisted and the root
\* stays while the replica is not started; the start that follows builds
\* the Graph from the persisted root and becomes started without going
\* through #updateRoot, so no root is persisted and no `update` is emitted.
\* The restarted replica so has the root, heads, tails, missing and denied
\* it had immediately before stop.
C13_RestartRoundTrip ==
  [][\A r \in Replicas :
       /\ StopEnd(r) =>
            (pointer[r] = graph[r] /\ root[r] = GraphRoot(graph[r]))
       /\ (~isStarted[r] /\ pointer[r] # Null) =>
            (pointer'[r] = pointer[r] /\ root'[r] = root[r])
       /\ (~isStarted[r] /\ isStarted'[r] /\ pointer[r] # Null) =>
            /\ lifepc[r].pc = "starting"
            /\ graph'[r] = pointer[r]
            /\ GraphRoot(graph'[r]) = root'[r]]_vars

C13_Witness ==
  /\ isStarted["A"]
  /\ nstops < MaxStops
  /\ graph["A"] = pointer["A"]
  /\ root["A"] = GraphRoot(graph["A"])
  /\ graph["A"].heads # {}
  /\ graph["A"].missing # {}
  /\ graph["A"].denied # {}

\* C14: traverse works on the clone taken when it was called.  What it
\* returns is the walk over that clone, whatever add and write have done to
\* the live Graph since; the steps of traverse change neither the live
\* Graph nor the root nor the persisted root nor any call in flight; and
\* while a traverse is walking add and write take their steps as they do
\* without it, leaving the traverse and its clone as they are.
C14_TraverseIsolated ==
  [][\A r \in Replicas :
       /\ (walk[r].pc = "walking" /\ walk'[r].pc = "done") =>
            /\ walk'[r].result = Walked(walk[r].clone, walk[r].dir)
            /\ walk'[r].clone = walk[r].clone
       /\ walk'[r] # walk[r] =>
            UNCHANGED <<graph, root, pointer, calls, last, blocks, idblocks>>
       /\ (walk[r].pc = "walking" /\ graph'[r] # graph[r]) =>
            walk'[r] = walk[r]]_vars

\* a traverse returned the sequence of its clone after a write had put a
\* new head into the live Graph
C14_Witness ==
  /\ walk["A"].pc = "done"
  /\ walk["A"].dir = "descend"
  /\ Len(walk["A"].result) = 1
  /\ graph["A"] # Null
  /\ walk["A"].clone # graph["A"]
  /\ Len(Traverse("A", "descend")) = 2
  /\ walk["A"].result # Traverse("A", "descend")

\* position of an entry in a sequence that holds it
IndexOf(seq, c) == CHOOSE i \in 1 .. Len(seq) : seq[i] = c

\* C15: traverse with a direction other than descend and ascend fails on
\* the direction, returns no entry and leaves Graph and root as they are.
\* With descend it starts from the heads and follows the outgoing edges
\* down to the tails: every accepted entry is returned once, the first is
\* a head, and an entry comes before the entries it links to.  With ascend
\* it starts from the tails and follows the incoming edges up to the heads:
\* the first is a tail and an entry comes after the entries it links to.
C15_TraverseDirections ==
  [][\A r \in Replicas :
       (walk[r].pc = "walking" /\ walk'[r].pc = "done") =>
         LET g == walk[r].clone
             d == walk[r].dir
             res == walk'[r].result
         IN /\ UNCHANGED <<graph, root, pointer>>
            /\ d \notin {"descend", "ascend"} => res = <<"err_direction">>
            /\ d \in {"descend", "ascend"} =>
                 /\ SeqToSet(res) = g.accepted
                 /\ Len(res) = Cardinality(g.accepted)
                 /\ res # <<>> =>
                      res[1] \in (IF d = "descend" THEN g.heads ELSE g.tails)
                 /\ \A e \in g.edges :
                      (e[1] \in g.accepted /\ e[2] \in g.accepted) =>
                        IF d = "descend"
                          THEN IndexOf(res, e[1]) < IndexOf(res, e[2])
                          ELSE IndexOf(res, e[2]) < IndexOf(res, e[1])]_vars

C15_Witness ==
  /\ walk["A"].pc = "done"
  /\ walk["A"].dir = "sideways"
  /\ walk["A"].result = <<"err_direction">>
  /\ walk["A"].clone = graph["A"]
  /\ Len(Traverse("A", "ascend")) = 2
  /\ Traverse("A", "descend") # Traverse("A", "ascend")

\* the entries of a batch that carry the manifest's tag, and the others
Tagged(batch) ==
  {batch[k] : k \in {j \in 1 .. Len(batch) : EntryTag(batch[j]) = ManifestTag}}

Untagged(batch) == SeqToSet(batch) \ Tagged(batch)

\* C16: an entry of an add batch whose tag is not the manifest's tag is
\* skipped.  The step that meets it puts no block, changes no Graph, does
\* not go to the access check and does not end the call: add goes on with
\* the next entry.  When the loop is over every entry with the right tag
\* has been admitted or denied, no skipped entry is in the Graph or in the
\* blockstore, and add returns normally.
C16_MismatchedTagSkipped ==
  [][\A r \in Replicas : \A s \in Slots :
       LET c == calls[r][s]
       IN /\ (PutStep(r, s) /\ EntryTag(c.batch[c.i]) # ManifestTag) =>
               /\ UNCHANGED <<blocks, idblocks, graph, root, pointer, last>>
               /\ calls'[r][s].pc =
                    (IF c.i = Len(c.batch) THEN "compare" ELSE "put")
               /\ calls'[r][s].i = c.i + 1
          /\ (CompareStep(r, s) /\ graph[r] # Null) =>
               /\ Tagged(c.batch) \subseteq
                    graph[r].accepted \cup graph[r].denied
               /\ Untagged(c.batch) \cap
                    (graph[r].accepted \cup graph[r].denied
                       \cup graph[r].missing \cup blocks[r]) = {}
               /\ Cardinality(InFlight(r))' < Cardinality(InFlight(r)) =>
                    last'[r].result = "ok"]_vars

\* add was called with a mistagged entry followed by an entry of A: the
\* first was skipped, the second was admitted
C16_Witness ==
  /\ calls["A"][1].pc = "compare"
  /\ Len(calls["A"][1].batch) = 2
  /\ EntryTag(calls["A"][1].batch[1]) # ManifestTag
  /\ calls["A"][1].batch[2] \in graph["A"].heads
  /\ calls["A"][1].batch[1] \notin blocks["A"]
  /\ calls["A"][1].batch[2] \in blocks["A"]

\* C17: a write that reports success and emits `write` has appended its
\* entry: when the call returns normally the entry it created is accepted
\* in the Graph, not denied.
C17_WriteOnlyWhenAppended ==
  [][\A r \in Replicas : \A s \in Slots :
       LET c == calls[r][s]
       IN (/\ CompareStep(r, s) \/ PersistStep(r, s)
           /\ c.op = "write"
           /\ Cardinality(InFlight(r))' < Cardinality(InFlight(r))
           /\ last'[r].result = "ok"
           /\ graph[r] # Null) =>
            /\ c.batch[1] \in graph[r].accepted
            /\ c.batch[1] \notin graph[r].denied]_vars


\* a step in which a write call of r returns normally, its events dispatched
WriteReturns(r, s) ==
  /\ CompareStep(r, s) \/ PersistStep(r, s)
  /\ calls[r][s].op = "write"
  /\ Cardinality(InFlight(r))' < Cardinality(InFlight(r))
  /\ last'[r].result = "ok"

\* C18: while the pubsub replicator of a Replica runs, every write
\* notification starts one broadcast, which encodes the heads the Replica has
\* when it reads them and publishes them on the topic of the database; a write
\* notification before start or after stop starts no broadcast, no broadcast
\* starts without a write notification, and a message that arrives while the
\* replicator is stopped is not merged.
C18_PublishPerWrite ==
  [][\A r \in Replicas :
       /\ \A s \in Slots :
            WriteReturns(r, s) =>
              IF listening[r]
                THEN bcast'[r] = Append(bcast[r], NewBroadcast)
                ELSE bcast' = bcast
       /\ Len(bcast'[r]) > Len(bcast[r]) =>
            listening[r] /\ \E s \in Slots : WriteReturns(r, s)
       /\ \A i \in 1 .. MaxPubCalls :
            /\ (BroadcastEncode(r, i) /\ graph[r] # Null) =>
                 bcast'[r][i] = [pc |-> "publish",
                                 data |-> encodeHeads(HeadList(graph[r].heads))]
            /\ BroadcastPublish(r, i) =>
                 \A m \in msgs' \ msgs :
                   m.topic = Protocol(r) /\ m.data = bcast[r][i].data
       /\ \A m \in msgs : Deliver(r, m) => listening[r]]_vars

\* the heads of a write were published on the topic of the database by a
\* replicator that was stopped afterwards, and a later write of the same
\* Replica has returned without a broadcast
C18_Witness ==
  \E m \in msgs :
    /\ m.topic = Protocol("A")
    /\ m.to = "B"
    /\ decodeHeads(m.data).heads # <<>>
    /\ ~listening["A"]
    /\ bcast["A"] = <<>>
    /\ last["A"].op = "write" /\ last["A"].result = "ok"
    /\ graph["A"] # Null
    /\ getHeads("A") # SeqToSet(decodeHeads(m.data).heads)


\* a step of a broadcast call of r
BroadcastStep(r) ==
  \E i \in 1 .. MaxPubCalls :
    BroadcastEncode(r, i) \/ BroadcastPublish(r, i) \/ BroadcastFail(r, i)

\* C19: write does not wait for the publish of the replicator: when a write
\* returns on a Replica whose replicator runs, the broadcast it caused has
\* not published yet, and no step of a broadcast, a failing publish
\* included, changes the calls in flight, what the last call returned, the
\* Graph, the root or the persisted root.
C19_WriteIndependentOfPublish ==
  [][\A r \in Replicas :
       /\ \A s \in Slots :
            (WriteReturns(r, s) /\ listening[r]) =>
              /\ bcast'[r][Len(bcast'[r])].pc = "encode"
              /\ msgs' = msgs
       /\ BroadcastStep(r) =>
            UNCHANGED <<calls, last, graph, root, pointer>>]_vars

\* a write has returned normally while the publish it caused has not
\* completed; the root is the one of the Graph the write left
C19_Witness ==
  /\ last["A"].op = "write"
  /\ last["A"].result = "ok"
  /\ InFlight("A") = {}
  /\ Len(bcast["A"]) = 1
  /\ bcast["A"][1].pc = "publish"
  /\ graph["A"] # Null
  /\ getHeads("A") # {}
  /\ SeqToSet(decodeHeads(bcast["A"][1].data).heads) = getHeads("A")
  /\ root["A"] = GraphRoot(graph["A"])

\* C20: a pubsub replicator merges a received message only if the message
\* was published on its own topic: the delivery of a message of another
\* topic the node is subscribed to calls no add on the Replica.
C20_TopicIsolation ==
  [][\A r \in Replicas : \A m \in msgs :
       (Deliver(r, m) /\ m.topic # Protocol(r)) =>
         UNCHANGED <<calls, last, ncalls>>]_vars


C21_DecodeFailureSkipped ==
  [][\A r \in Replicas :
       (/\ boot[r].pc = "starting"
        /\ boot[r].peers # <<>>
        /\ Head(boot[r].peers) # r
        /\ ~DialFails(Head(boot[r].peers))
        /\ ~decodeHeads(Reply(Head(boot[r].peers))).ok
        /\ BootDial(r)) =>
         /\ boot'[r].peers = Tail(boot[r].peers)
         /\ UNCHANGED <<graph, root, pointer, calls, last>>]_vars


Instances(w, a) ==
  Cardinality(Pending(w, a)) + (IF w.opened[a] # 0 THEN 1 ELSE 0)

Started(w, a) ==
  {d \in DOMAIN w.dbs : w.dbs[d].addr = a /\ w.dbs[d].started}

\* C24: Welo.open fails when a database of the address is open or is being
\* opened: after every step at most one Database instance of an address is
\* held in opened and _opening together, at most one is started, and an open
\* that is refused changes neither opened nor _opening.
C24_OneDatabasePerAddress ==
  [][\A a \in Addrs :
       /\ Instances(welo', a) <= 1
       /\ Cardinality(Started(welo', a)) <= 1
       /\ (WeloOpen(a) /\ OpenRejected(welo, a)) =>
            /\ welo'.opened = welo.opened
            /\ welo'.opening = welo.opening
            /\ welo'.dbs = welo.dbs
            /\ welo'.opens[Len(welo'.opens)].pc = "rejected"]_vars

\* an open of an address has resolved and its database is in opened; two
\* later opens of the address were refused
C24_Witness ==
  \E j, k, l \in DOMAIN welo.opens :
    /\ j < k /\ k < l
    /\ welo.opens[j].addr = welo.opens[k].addr
    /\ welo.opens[l].addr = welo.opens[k].addr
    /\ welo.opens[j].pc = "resolved"
    /\ welo.opens[k].pc = "rejected"
    /\ welo.opens[l].pc = "rejected"
    /\ welo.opened[welo.opens[j].addr] # 0
    /\ welo.ncalls > 0


\* C25: Database.close leaves the database not started and then emits one
\* closed event for each close call; with the event the Welo that holds the
\* database in opened removes its address, so that the manifest can be
\* opened again.
C25_CloseEmitsClosed ==
  [][\A d \in 1 .. MaxWeloCalls :
       /\ DbClose(d) => ~welo'.dbs[d].started
       /\ DbClosed(d) =>
            /\ ~welo.dbs[d].started
            /\ welo'.dbs[d].closed = welo.dbs[d].closed + 1
            /\ welo.opened[welo.dbs[d].addr] = d =>
                 welo'.opened[welo.dbs[d].addr] = 0
       /\ d \in DOMAIN welo'.dbs =>
            welo'.dbs[d].closed + welo'.dbs[d].pending = welo'.dbs[d].calls]_vars

\* a database was closed, its one closed event was emitted, and the same
\* manifest was opened again: the new database is the one in opened
C25_Witness ==
  \E d, e \in DOMAIN welo.dbs :
    /\ d < e
    /\ welo.dbs[d].addr = welo.dbs[e].addr
    /\ welo.dbs[d].calls = 1
    /\ welo.dbs[d].closed = 1
    /\ ~welo.dbs[d].started
    /\ welo.dbs[e].started
    /\ welo.opened[welo.dbs[e].addr] = e


\* C26: whenever no add or write is in progress on a started Replica, the
\* root and the persisted root are those of the live Graph, also after an
\* add that failed part-way through its batch.
C26_RootOfLiveGraph ==
  \A r \in Replicas :
    (Awaited(r) /\ graph[r] # Null) =>
      /\ root[r] = GraphRoot(graph[r])
      /\ pointer[r] # Null
      /\ GraphRoot(pointer[r]) = GraphRoot(graph[r])


\* the answer of has or known on a given Graph
AnswerOn(g, kind, c) ==
  IF kind = "has" THEN (IF GraphHas(g, c) THEN "yes" ELSE "no")
  ELSE (IF GraphKnown(g, c) THEN "yes" ELSE "no")

\* C27: while an add of a batch of several entries is in progress, has and
\* known answer from the Graph as it was before the batch or from the Graph
\* after the whole batch, never from a Graph with part of the batch applied.
C27_ReadsSeeWholeBatches ==
  [][\A r \in Replicas, kind \in {"has", "known"}, c \in Cids,
       s \in Slots :
       (/\ Read(r, kind, c)
        /\ calls[r][s].op = "add"
        /\ Len(calls[r][s].batch) >= 2
        /\ graph[r] # Null)
       => lastRead'.result \in
            {AnswerOn(calls[r][s].clone, kind, c),
             AnswerOn(ApplyBatch(calls[r][s].clone, calls[r][s].batch),
                      kind, c)}]_vars


\* C28: every observed entry hash is in exactly one of missing, accepted
\* (head, tail or internal) and denied; a denied hash is never in heads,
\* tails or missing, also when an entry admitted later links to it.
C28_PartitionsExclusive ==
  \A r \in Replicas :
    graph[r] # Null =>
      LET g == graph[r]
      IN /\ g.heads \subseteq g.accepted
         /\ g.tails \subseteq g.accepted
         /\ g.accepted \cap g.missing = {}
         /\ g.accepted \cap g.denied = {}
         /\ g.missing \cap g.denied = {}
         /\ \A e \in g.edges :
              /\ e[1] \in g.accepted
              /\ e[2] \in g.accepted \cup g.missing \cup g.denied

\* add has denied the entry of Foreign and then admitted the entry that
\* links to it
C28_Witness ==
  \E s \in Slots :
    /\ calls["A"][s].op = "add"
    /\ calls["A"][s].batch = <<1, 2>>
    /\ calls["A"][s].pc = "compare"
    /\ graph["A"] # Null
    /\ 1 \in graph["A"].denied
    /\ 2 \in graph["A"].accepted
    /\ <<2, 1>> \in graph["A"].edges


\* C29: a start that finds no root pointer ends with an empty Graph, the
\* empty root persisted and set as Replica.root; a start that reads the
\* root pointer ends with the Graph of that root and that root as
\* Replica.root.
C29_StartBuildsGraph ==
  [][\A r \in Replicas :
       (~isStarted[r] /\ isStarted'[r]) =>
         IF lifepc[r].read = "absent"
           THEN /\ pointer[r] = Null
                /\ graph'[r] = EmptyGraph
                /\ root'[r] = GraphRoot(EmptyGraph)
                /\ pointer'[r] = EmptyGraph
           ELSE lifepc[r].read = "ok" =>
                /\ pointer[r] # Null
                /\ graph'[r] = pointer[r]
                /\ root'[r] = GraphRoot(pointer[r])
                /\ pointer'[r] = pointer[r]]_vars

\* the replica has been stopped and started again from a root with entries
C29_Witness ==
  /\ isStarted["A"]
  /\ lifepc["A"].pc = "idle"
  /\ nstops < MaxStops
  /\ graph["A"] # Null
  /\ graph["A"].heads # {}
  /\ graph["A"] = pointer["A"]
  /\ root["A"] = GraphRoot(pointer["A"])
  /\ ncalls = 0
  /\ last["A"].op = "write"


\* the hashes a replica has recorded as accepted or denied
Recorded(g) == IF g = Null THEN {} ELSE g.accepted \cup g.denied

\* C30: in a merge of received heads a head that cannot be fetched is
\* skipped and the merge goes on: the heads of the message that were fetched
\* are handed to one call of add, the unfetched hash is not in that batch,
\* and a hash is recorded as accepted or denied only once its block is there.
C30_UnfetchedHeadSkipped ==
  [][/\ \A r \in Replicas, m \in msgs :
          (/\ Deliver(r, m)
           /\ decodeHeads(m.data).ok
           /\ graph[r] # Null)
          => LET heads == SeqToSet(decodeHeads(m.data).heads)
                 fetched == {h \in heads : Fetchable(h)}
             IN /\ graph' = graph
                /\ last' = last
                /\ \E s \in Slots :
                     /\ calls[r][s].op = "none"
                     /\ calls'[r][s].op = "add"
                     /\ fetched \subseteq SeqToSet(calls'[r][s].batch)
                     /\ (heads \ fetched) \cap
                          SeqToSet(calls'[r][s].batch) = {}
                     /\ \A t \in Slots \ {s} : calls'[r][t] = calls[r][t]
     /\ \A r \in Replicas :
          (Recorded(graph'[r]) \ Recorded(graph[r])) \subseteq blocks'[r]
    ]_vars

\* A merges a message with the heads 1 and 2: no node has the block of 1,
\* and add is called with the entry 2 alone
C30_Witness ==
  \E s \in Slots :
    /\ calls["A"][s].op = "add"
    /\ calls["A"][s].batch = <<2>>
    /\ ~Fetchable(1)
    /\ graph["A"] # Null
    /\ 1 \notin Recorded(graph["A"])


\* C31: on start the bootstrap replicator goes through every provider it
\* has found: its own peer id is passed over without a dial, and a dial, a
\* read or a decode that fails with one provider leaves the providers after
\* it to be dialed.
C31_EveryPeerAttempted ==
  [][\A r \in Replicas :
       (BootDial(r) /\ boot[r].peers # <<>>) =>
         LET p == Head(boot[r].peers)
         IN /\ p = r => (calls' = calls /\ ncalls' = ncalls)
            /\ (p = r \/ DialFails(p) \/ ~decodeHeads(Reply(p)).ok)
                 => boot'[r].peers = Tail(boot[r].peers)]_vars


\* C32: the start of a bootstrap replicator always completes: whatever the
\* providers do, also one that accepts the dial and never closes its
\* stream, the replicator runs in the end.
C32_StartTerminates ==
  \A r \in Solo :
    (boot[r].pc = "starting" /\ ncalls >= Len(boot[r].peers))
      ~> (boot[r].pc = "running")


\* C33: the root pointer in the datastore always names a root whose block
\* is in the blockstore, also after a root update that failed.
C33_PointerNamesStoredRoot ==
  \A r \in Replicas : pointer[r] # Null => rootblock[r]


\* C35: when Welo.open fails, for want of a component or because
\* Database.open rejects, the address is in neither opened nor _opening
\* afterwards, and the next open of the manifest is not refused.
C35_FailedOpenFreesAddress ==
  [][/\ \A a \in Addrs :
          (WeloOpenMissing(a) /\ ~OpenRejected(welo, a)) =>
            /\ welo'.opened[a] = 0
            /\ welo'.opening[a] = 0
     /\ \A k \in 1 .. MaxWeloCalls :
          (OpenSettled(k) /\ welo.opens[k].pc = "catch") =>
            /\ welo'.opens[k].pc = "failed"
            /\ welo'.opened[welo.opens[k].addr] = 0
            /\ welo'.opening[welo.opens[k].addr] = 0
            /\ ~OpenRejected(welo', welo.opens[k].addr)]_vars

\* Database.open rejected for an address, a later open of the address found
\* a component missing, and a third open of it has resolved
C35_Witness ==
  \E j, k, l \in DOMAIN welo.opens :
    /\ j < k /\ k < l
    /\ welo.opens[j].addr = welo.opens[k].addr
    /\ welo.opens[l].addr = welo.opens[k].addr
    /\ welo.opens[j].pc = "failed"
    /\ welo.opens[k].pc = "missing"
    /\ welo.opens[l].pc = "resolved"
    /\ welo.opened[welo.opens[l].addr] # 0


\* C34: when the stop of a Welo completes, no open that was in progress is
\* still in progress, and every database in opened has been stopped.
C34_StopStopsDatabases ==
  [][WeloStop =>
       /\ MapValues(welo.opening) = {}
       /\ \A d \in MapValues(welo.opened) : ~welo'.dbs[d].started]_vars


\* C36: whatever start and stop calls are made on a Monitor, at most one
\* polling loop is active: the polls in flight and the timers set are never
\* more than one together.
C36_OnePollingLoop ==
  Len(monitor.polls) + monitor.timers <= 1


\* C37: while a Monitor is stopped it emits no event, its peers do not
\* change and no timer is set; a poll whose query resolves then ends without
\* any effect.
C37_StoppedMonitorIsSilent ==
  [][/\ ~monitor.isStarted =>
          /\ monitor'.events = monitor.events
          /\ monitor'.peers = monitor.peers
          /\ monitor'.timers <= monitor.timers
     /\ \A i \in 1 .. MaxMonitorCalls, ps \in SUBSET MonPeers :
          (PollResolve(i, ps) /\ ~monitor.isStarted) =>
            monitor' = [monitor EXCEPT !.polls = Without(@, i)]]_vars

\* the Monitor has emitted events and was stopped; the poll that was in
\* flight has ended, and neither a poll nor a timer is left
C37_Witness ==
  /\ ~monitor.isStarted
  /\ monitor.events # <<>>
  /\ monitor.peers # {}
  /\ monitor.polls = <<>>
  /\ monitor.timers = 0
  /\ monitor.ncalls > 0

\* the peer-join and peer-leave events of a peer, in the order of emission
EventsOf(log, p) ==
  SelectSeq(log, LAMBDA e : e.peer = p /\ e.type # "update")

\* joins and leaves alternate, beginning with a join
Alternate(s) ==
  \A k \in 1 .. Len(s) :
    s[k].type = IF k % 2 = 1 THEN "peer-join" ELSE "peer-leave"

\* every join and every leave is followed by one update
Updated(log) ==
  /\ Len(log) % 2 = 0
  /\ \A k \in 1 .. Len(log) :
       (log[k].type = "update") <=> (k % 2 = 0)

\* the peers whose last event is a join
Joined(log) ==
  {p \in MonPeers :
     Len(EventsOf(log, p)) > 0 /\
     EventsOf(log, p)[Len(EventsOf(log, p))].type = "peer-join"}

\* C38: for every peer, peer-join and peer-leave alternate, beginning with
\* peer-join, each is followed by one update, and after each completed poll
\* the peers of the Monitor are the peers whose last event is peer-join.
C38_JoinLeaveAlternate ==
  [][/\ \A p \in MonPeers : Alternate(EventsOf(monitor'.events, p))
     /\ Updated(monitor'.events)
     /\ \A i \in 1 .. MaxMonitorCalls, ps \in SUBSET MonPeers :
          (PollResolve(i, ps) /\ monitor.isStarted) =>
            monitor'.peers = Joined(monitor'.events)]_vars


\* C39: when every start and stop call made on an Opal has returned, the
\* Opal is in the state asked for by the call made last: started after
\* start, also a start made while a stop was in progress, stopped after
\* stop.
C39_LastCallWins ==
  (opal.calls = <<>> /\ opal.last # "none") =>
    (opal.isStarted <=> opal.last = "start")


\* C40: the star of a Register is the first component added, until an add
\* passes star = true: an add without the star argument sets the star only
\* on an empty Register, and an add of a registered type throws
\* typeRegistered and changes neither the components nor the star.
C40_StarIsFirstUnlessAsked ==
  [][\A type \in Types, arg \in {"default", "true", "false"} :
       RegisterAdd(type, arg) =>
         IF type \in MapKeys(pure)
           THEN /\ pure'.result = "typeRegistered"
                /\ pure'.registered = pure.registered
                /\ pure'.star = pure.star
           ELSE /\ pure'.registered = pure.registered \cup {type}
                /\ pure'.star =
                     IF arg = "true" \/ (arg = "default" /\ MapKeys(pure) = {})
                       THEN type ELSE pure.star]_vars

====
